---- MODULE Spec2Model ----
(***************************************************************************)
(* A model of tokget's browser-driven OpenID Connect engine:               *)
(*   internal/errors  (New, Wrap, Cause, Match, Error)                     *)
(*   internal/chrome  (ConnectWithContext, NewNavHistory, Navigate,        *)
(*                     PageLoadWaiterFunc, HasElement, Text)               *)
(*   internal/oidc    (Login, Logout, extractOIDCError, extractOIDCTokens) *)
(*                                                                         *)
(* Go strings are modelled as sequences of tokens: a token is either a     *)
(* delimiter of the URL / format syntax ("#", "?", "&", "=", "%s", ...)    *)
(* or an opaque run of ordinary characters ("error", "/cb", "A", ...).     *)
(* The empty string is the empty sequence.                                 *)
(***************************************************************************)
EXTENDS Naturals, Sequences, FiniteSets, TLC

----------------------------------------------------------------------------
(* Bounds of the model.                                                    *)

\* the largest number of requests the browser lets the listener intercept in one call
MaxIntercepts == 2

----------------------------------------------------------------------------
(* internal/errors: kinds.                                                 *)

KindOther == ""
KindEndpointMissed == "endpoint_is_missed"
KindEndpointInvalid == "endpoint_is_invalid"
KindClientIDMissed == "client_id_is_missed"
KindRedirectURIMissed == "redirect_uri_is_missed"
KindScopesMissed == "scopes_are_missed"
KindIDTokenMissed == "id_token_is_missed"
KindUsernameMissed == "username_is_missed"
KindUsernameFieldMissed == "username_field_selector_is_missed"
KindUsernameFieldInvalid == "username_field_selector_is_invalid"
KindPasswordFieldMissed == "password_field_selector_is_missed"
KindPasswordFieldInvalid == "password_field_selector_is_invalid"
KindSubmitButtonMissed == "submit_button_selector_is_missed"
KindSubmitButtonInvalid == "submit_button_selector_is_invalid"
KindErrorMessageMissed == "error_message_selector_is_missed"
KindOIDCError == "openid_connect_error"
KindLoginError == "login_error"
KindTimeout == "timeout"

----------------------------------------------------------------------------
(* Strings as token sequences.                                             *)

\* index of the first occurrence of token d in s, 0 when there is none
IndexOf(s, d) ==
    IF \E i \in 1..Len(s) : s[i] = d
    THEN CHOOSE i \in 1..Len(s) : s[i] = d /\ \A j \in 1..(i - 1) : s[j] # d
    ELSE 0

Before(s, i) == SubSeq(s, 1, i - 1)
After(s, i) == SubSeq(s, i + 1, Len(s))

RECURSIVE SplitBy(_, _)
\* strings.Split(s, d)
SplitBy(s, d) ==
    LET i == IndexOf(s, d)
    IN  IF i = 0 THEN <<s>> ELSE <<Before(s, i)>> \o SplitBy(After(s, i), d)

RECURSIVE Concat(_)
Concat(ss) == IF ss = <<>> THEN <<>> ELSE Head(ss) \o Concat(Tail(ss))

\* the white-space tokens
Space == {" ", "\n"}

RECURSIVE TrimLeft(_)
TrimLeft(s) == IF s # <<>> /\ Head(s) \in Space THEN TrimLeft(Tail(s)) ELSE s

RECURSIVE TrimRight(_)
TrimRight(s) ==
    IF s # <<>> /\ s[Len(s)] \in Space THEN TrimRight(SubSeq(s, 1, Len(s) - 1)) ELSE s

\* strings.TrimSpace
TrimSpace(s) == TrimRight(TrimLeft(s))

----------------------------------------------------------------------------
(* fmt.Sprintf over token strings.  The verbs are tokens of the format;    *)
(* every parameter the code passes is a string.                            *)

Verbs == {"%s", "%q", "%d"}

\* what Sprintf writes for a verb that has no operand left
Missing(verb) ==
    CASE verb = "%s" -> "%!s(MISSING)"
      [] verb = "%q" -> "%!q(MISSING)"
      [] verb = "%d" -> "%!d(MISSING)"

\* what Sprintf writes for a verb applied to a string operand
Format(verb, p) ==
    CASE verb = "%s" -> p
      [] verb = "%q" -> <<"\"">> \o p \o <<"\"">>
      [] verb = "%d" -> <<"%!d(string=">> \o p \o <<")">>

RECURSIVE Sprintf(_, _)
Sprintf(format, params) ==
    IF format = <<>>
    THEN IF params = <<>> THEN <<>> ELSE <<"%!(EXTRA ">> \o Concat(params) \o <<")">>
    ELSE LET t == Head(format)
         IN  IF t \in Verbs
             THEN IF params = <<>>
                  THEN <<Missing(t)>> \o Sprintf(Tail(format), params)
                  ELSE Format(t, Head(params)) \o Sprintf(Tail(format), Tail(params))
             ELSE IF t = "%%"
                  THEN <<"%">> \o Sprintf(Tail(format), params)
                  ELSE <<t>> \o Sprintf(Tail(format), params)

----------------------------------------------------------------------------
(* internal/errors: Error, New, Wrap, Cause, Match.                        *)
(* An error value is one of                                                *)
(*   Nil                                  the nil error                    *)
(*   [plain |-> s]                        an error that is not an *Error   *)
(*   [Kind |-> k, cause |-> e, msg |-> s] an *Error                        *)

Nil == [nil |-> TRUE]
Plain(s) == [plain |-> s]
IsError(e) == "Kind" \in DOMAIN e

\* the non-taxonomy errors of the libraries the program calls
ContextCanceled == Plain(<<"context canceled">>)
TransportError == Plain(<<"transport error">>)
InvalidURLEscape == Plain(<<"invalid URL escape">>)

\* the arguments of New, tagged with their Go type
KindArg(k) == [t |-> "Kind", v |-> k]
ErrArg(e) == [t |-> "error", v |-> e]
StrArg(s) == [t |-> "string", v |-> s]

RECURSIVE NewScan(_, _)
\* the loop over args in New
NewScan(args, acc) ==
    IF args = <<>> THEN acc
    ELSE LET arg == Head(args)
         IN  NewScan(Tail(args),
                CASE arg.t = "Kind" -> [acc EXCEPT !.Kind = arg.v]
                  [] arg.t = "error" -> [acc EXCEPT !.cause = arg.v]
                  [] arg.t = "string" ->
                       IF acc.msg = <<>>
                       THEN [acc EXCEPT !.msg = arg.v]
                       ELSE [acc EXCEPT !.params = Append(@, arg.v)]
                  [] OTHER -> [acc EXCEPT !.params = Append(@, arg.v)])

\* a New that takes the message as it is
NewUnformatted(args) ==
    LET r == NewScan(args, [Kind |-> KindOther, cause |-> Nil, msg |-> <<>>, params |-> <<>>])
    IN  [Kind |-> r.Kind, cause |-> r.cause, msg |-> r.msg]

New(args) ==
    LET r == NewScan(args, [Kind |-> KindOther, cause |-> Nil, msg |-> <<>>, params |-> <<>>])
    IN  [Kind |-> r.Kind, cause |-> r.cause, msg |-> Sprintf(r.msg, r.params)]

Wrap(err, msg, params) ==
    New(<<ErrArg(err), StrArg(msg)>> \o [i \in 1..Len(params) |-> StrArg(params[i])])

RECURSIVE ErrorString(_)
\* (*Error).Error, and Error() of a non-taxonomy error
ErrorString(e) ==
    IF IsError(e)
    THEN IF e.cause = Nil THEN e.msg ELSE e.msg \o <<": ">> \o ErrorString(e.cause)
    ELSE e.plain

\* a Cause that unwraps one level only
CauseOneLevel(err) == IF IsError(err) THEN err.cause ELSE err

RECURSIVE Cause(_)
Cause(err) == IF IsError(err) THEN Cause(err.cause) ELSE err

\* a Match that looks at the Kind of the innermost taxonomy error of got
RECURSIVE InnermostKind(_)
InnermostKind(e) == IF IsError(e.cause) THEN InnermostKind(e.cause) ELSE e.Kind
MatchInnermost(g, w) ==
    IF ~IsError(w) THEN FALSE
    ELSE IF ~IsError(g) THEN FALSE
    ELSE w.Kind = InnermostKind(g)

Match(g, w) ==
    IF ~IsError(w) THEN FALSE
    ELSE IF ~IsError(g) THEN FALSE
    ELSE w.Kind = g.Kind

----------------------------------------------------------------------------
(* net/url as the program uses it.                                         *)

\* a token that is no valid percent-escape
BadEscape == "%zz"

\* percent-decoding of one token of a path or a fragment
PathUnescapeTok(t) ==
    CASE t = "%25d" -> "%d"
      [] t = "%2525d" -> "%25d"
      [] OTHER -> t
\* percent-decoding of one token of a query component ('+' is a space)
QueryUnescapeTok(t) == IF t = "+" THEN " " ELSE PathUnescapeTok(t)
\* percent-encoding of one token of a path or fragment
EscapeTok(t) ==
    CASE t = "%d" -> "%25d"
      [] t = "%25d" -> "%2525d"
      [] OTHER -> t

PathUnescape(s) == [i \in 1..Len(s) |-> PathUnescapeTok(s[i])]
QueryUnescape(s) == [i \in 1..Len(s) |-> QueryUnescapeTok(s[i])]
Escape(s) == [i \in 1..Len(s) |-> EscapeTok(s[i])]
HasBadEscape(s) == \E i \in 1..Len(s) : s[i] = BadEscape

\* the scheme-and-host tokens
Hosts == {"http://op", "http://rp"}

\* url.Parse: the fragment is cut at the first '#', the query at the first '?';
\* the path and the fragment are percent-decoded, the query is kept raw
urlParse(u) ==
    LET h == IndexOf(u, "#")
        rest == IF h = 0 THEN u ELSE Before(u, h)
        frag == IF h = 0 THEN <<>> ELSE After(u, h)
        q == IndexOf(rest, "?")
        hostpath == IF q = 0 THEN rest ELSE Before(rest, q)
        query == IF q = 0 THEN <<>> ELSE After(rest, q)
        hasHost == hostpath # <<>> /\ Head(hostpath) \in Hosts
        path == IF hasHost THEN Tail(hostpath) ELSE hostpath
    IN  IF HasBadEscape(path) \/ HasBadEscape(frag)
        THEN [err |-> InvalidURLEscape]
        ELSE [err |-> Nil, Host |-> IF hasHost THEN <<Head(hostpath)>> ELSE <<>>,
              Path |-> PathUnescape(path), RawQuery |-> query,
              Fragment |-> PathUnescape(frag)]

\* (*URL).String
urlString(u) ==
    u.Host \o Escape(u.Path)
      \o (IF u.RawQuery = <<>> THEN <<>> ELSE <<"?">> \o u.RawQuery)
      \o (IF u.Fragment = <<>> THEN <<>> ELSE <<"#">> \o Escape(u.Fragment))

\* (*URL).ResolveReference for a reference that is an absolute path, as the
\* program's two references are: the base gives the host, the reference
\* the path, the query and the fragment
ResolveReference(u, ref) ==
    [err |-> Nil, Host |-> u.Host, Path |-> ref.Path, RawQuery |-> ref.RawQuery,
     Fragment |-> ref.Fragment]

\* percent-encoding of one token of a query component
QueryEscapeTok(t) == IF t = " " THEN "+" ELSE EscapeTok(t)
QueryEscape(s) == [i \in 1..Len(s) |-> QueryEscapeTok(s[i])]

\* the keys the program sets in a query, in the order url.Values.Encode sorts them
SortedKeys ==
    <<"client_id", "id_token_hint", "nonce", "redirect_uri", "response_type", "scope", "state">>

RECURSIVE EncodeKeys(_, _)
EncodeKeys(query, keys) ==
    IF keys = <<>> THEN <<>>
    ELSE LET k == Head(keys)
             rest == EncodeKeys(query, Tail(keys))
         IN  IF k \in DOMAIN query
             THEN <<k, "=">> \o QueryEscape(query[k])
                    \o (IF rest = <<>> THEN <<>> ELSE <<"&">> \o rest)
             ELSE rest

\* url.Values.Encode of the values the program has set (a function from key to value)
Encode(query) == EncodeKeys(query, SortedKeys)

\* one "key=value" segment of a query
ParsePair(seg) ==
    LET e == IndexOf(seg, "=")
    IN  [key |-> IF e = 0 THEN seg ELSE Before(seg, e),
         value |-> IF e = 0 THEN <<>> ELSE After(seg, e)]

RECURSIVE ParseSegments(_)
ParseSegments(segs) ==
    IF segs = <<>> THEN [values |-> <<>>, err |-> Nil]
    ELSE LET seg == Head(segs)
             rest == ParseSegments(Tail(segs))
             kv == ParsePair(seg)
         IN  IF seg = <<>> THEN rest
             ELSE IF HasBadEscape(kv.key) \/ HasBadEscape(kv.value)
                  THEN [values |-> rest.values, err |-> InvalidURLEscape]
                  ELSE [values |-> <<[key |-> QueryUnescape(kv.key),
                                      value |-> QueryUnescape(kv.value)]>> \o rest.values,
                        err |-> rest.err]

\* url.ParseQuery: every well-formed pair, and the first error met
ParseQuery(query) == ParseSegments(SplitBy(query, "&"))

\* url.Values.Get: the first value of the key, "" when there is none
Get(values, key) ==
    IF \E i \in 1..Len(values) : values[i].key = <<key>>
    THEN values[CHOOSE i \in 1..Len(values) :
                    values[i].key = <<key>> /\ \A j \in 1..(i - 1) : values[j].key # <<key>>].value
    ELSE <<>>

\* (*URL).Query: ParseQuery of RawQuery, its error dropped
Query(u) == ParseQuery(u.RawQuery).values

----------------------------------------------------------------------------
(* internal/oidc: the pure helpers of Login and Logout.                    *)

\* a *LoginData
LoginData(accessToken, idToken) == [AccessToken |-> accessToken, IDToken |-> idToken]

\* extractOIDCError that takes the description for the mark of an error
extractOIDCErrorByDescription(u) ==
    LET parsedURL == urlParse(u)
    IN  IF parsedURL.err # Nil
        THEN Wrap(parsedURL.err, <<"parse post login url">>, <<>>)
        ELSE IF Get(Query(parsedURL), "error_description") = <<>>
        THEN Nil
        ELSE New(<<KindArg(KindOIDCError), StrArg(Get(Query(parsedURL), "error_description"))>>)

\* the error extractOIDCError returns, or Nil
extractOIDCError(u) ==
    LET parsedURL == urlParse(u)
    IN  IF parsedURL.err # Nil
        THEN Wrap(parsedURL.err, <<"parse post login url">>, <<>>)
        ELSE IF Get(Query(parsedURL), "error") = <<>>
        THEN Nil
        ELSE LET description == Get(Query(parsedURL), "error_description")
                 hint == Get(Query(parsedURL), "error_hint")
                 msg == IF hint # <<>>
                        THEN Sprintf(<<"%s", ": ", "%s">>, <<description, hint>>)
                        ELSE description
             IN  New(<<KindArg(KindOIDCError), StrArg(msg)>>)

\* extractOIDCTokens without the check of the ID token
extractOIDCTokensNoIDTokenCheck(u) ==
    LET parsedURL == urlParse(u)
    IN  IF parsedURL.err # Nil
        THEN [data |-> Nil, err |-> Wrap(parsedURL.err, <<"parse post login URL">>, <<>>)]
        ELSE IF parsedURL.Fragment = <<>>
        THEN [data |-> Nil, err |-> Nil]
        ELSE LET userData == ParseQuery(parsedURL.Fragment)
                 accessToken == Get(userData.values, "access_token")
                 idToken == Get(userData.values, "id_token")
             IN  IF accessToken = <<>>
                 THEN [data |-> Nil,
                       err |-> New(<<StrArg(<<"the authentication endpoint does not send an access token in the url's fragment">>)>>)]
                 ELSE [data |-> LoginData(accessToken, idToken), err |-> Nil]

\* the pair (*LoginData, error) extractOIDCTokens returns
extractOIDCTokens(u) ==
    LET parsedURL == urlParse(u)
    IN  IF parsedURL.err # Nil
        THEN [data |-> Nil, err |-> Wrap(parsedURL.err, <<"parse post login URL">>, <<>>)]
        ELSE IF parsedURL.Fragment = <<>>
        THEN [data |-> Nil, err |-> Nil]
        ELSE LET userData == ParseQuery(parsedURL.Fragment)
                 accessToken == Get(userData.values, "access_token")
                 idToken == Get(userData.values, "id_token")
             IN  IF userData.err # Nil
                 THEN [data |-> Nil,
                       err |-> Wrap(userData.err,
                                    <<"parse the authentication callback's fragment">>, <<>>)]
                 ELSE IF accessToken = <<>>
                 THEN [data |-> Nil,
                       err |-> New(<<StrArg(<<"the authentication endpoint does not send an access token in the url's fragment">>)>>)]
                 ELSE IF idToken = <<>>
                 THEN [data |-> Nil,
                       err |-> New(<<StrArg(<<"the authentication endpoint does not send an id token in the url's fragment">>)>>)]
                 ELSE [data |-> LoginData(accessToken, idToken), err |-> Nil]

buildLoginURL(endpoint, clientID, redirectURI, scopes) ==
    LET ref == urlParse(<<"/oauth2/auth">>)
        loginStartURL == ResolveReference(endpoint, ref)
        query == [k \in {"client_id", "response_type", "scope", "redirect_uri", "state", "nonce"} |->
                    CASE k = "client_id" -> clientID
                      [] k = "response_type" -> <<"id_token", " ", "token">>
                      [] k = "scope" -> scopes
                      [] k = "redirect_uri" -> redirectURI
                      [] k = "state" -> <<"12345678">>
                      [] k = "nonce" -> <<"87654321">>]
    IN  urlString([loginStartURL EXCEPT !.RawQuery = Encode(query)])

buildLogoutURL(endpoint, idToken) ==
    LET ref == urlParse(<<"/oauth2/sessions/logout">>)
        loURL == ResolveReference(endpoint, ref)
        query == [k \in {"id_token_hint", "state"} |->
                    CASE k = "id_token_hint" -> idToken
                      [] k = "state" -> <<"12345678">>]
    IN  urlString([loURL EXCEPT !.RawQuery = Encode(query)])

\* a table of checks that asks for the selectors before the OpenID Connect parameters
checksSelectorsFirst(c) ==
    << [param |-> c.Endpoint, kind |-> KindEndpointMissed,
        msg |-> <<"OpenID Connect endpoint is missed">>],
       [param |-> c.UsernameField, kind |-> KindUsernameFieldMissed,
        msg |-> <<"username field's selector is missed">>],
       [param |-> c.PasswordField, kind |-> KindPasswordFieldMissed,
        msg |-> <<"password field's selector is missed">>],
       [param |-> c.SubmitButton, kind |-> KindSubmitButtonMissed,
        msg |-> <<"submit button's selector is missed">>],
       [param |-> c.ErrorMessage, kind |-> KindErrorMessageMissed,
        msg |-> <<"error message's selector is missed">>],
       [param |-> c.ClientID, kind |-> KindClientIDMissed,
        msg |-> <<"client ID is missed">>],
       [param |-> c.RedirectURI, kind |-> KindRedirectURIMissed,
        msg |-> <<"client's redirect uri is missed">>],
       [param |-> c.Scopes, kind |-> KindScopesMissed,
        msg |-> <<"OpenID Connect scopes are missed">>],
       [param |-> c.Username, kind |-> KindUsernameMissed,
        msg |-> <<"username is missed">> ] >>

\* the table of checks of Login, step 1, in its order
checks(c) ==
    << [param |-> c.Endpoint, kind |-> KindEndpointMissed,
        msg |-> <<"OpenID Connect endpoint is missed">>],
       [param |-> c.ClientID, kind |-> KindClientIDMissed,
        msg |-> <<"client ID is missed">>],
       [param |-> c.RedirectURI, kind |-> KindRedirectURIMissed,
        msg |-> <<"client's redirect uri is missed">>],
       [param |-> c.Scopes, kind |-> KindScopesMissed,
        msg |-> <<"OpenID Connect scopes are missed">>],
       [param |-> c.Username, kind |-> KindUsernameMissed,
        msg |-> <<"username is missed">>],
       [param |-> c.UsernameField, kind |-> KindUsernameFieldMissed,
        msg |-> <<"username field's selector is missed">>],
       [param |-> c.PasswordField, kind |-> KindPasswordFieldMissed,
        msg |-> <<"password field's selector is missed">>],
       [param |-> c.SubmitButton, kind |-> KindSubmitButtonMissed,
        msg |-> <<"submit button's selector is missed">>],
       [param |-> c.ErrorMessage, kind |-> KindErrorMessageMissed,
        msg |-> <<"error message's selector is missed">> ] >>

RECURSIVE FirstFailedCheck(_)
\* the loop over checks: the error of the first check whose param is empty, or Nil
FirstFailedCheck(chks) ==
    IF chks = <<>> THEN Nil
    ELSE IF Head(chks).param = <<>>
         THEN New(<<KindArg(Head(chks).kind), StrArg(Head(chks).msg)>>)
         ELSE FirstFailedCheck(Tail(chks))

\* Login, step 1: the validation error, or Nil
ValidateLogin(c) ==
    LET missed == FirstFailedCheck(checks(c))
    IN  IF missed # Nil THEN missed
        ELSE IF urlParse(c.Endpoint).err # Nil
        THEN New(<<KindArg(KindEndpointInvalid),
                   StrArg(<<"OpenID Connect endpoint has an invalid value">>)>>)
        ELSE Nil

\* Logout, step 1 looking at the ID token before the endpoint
ValidateLogoutTokenFirst(c) ==
    IF c.IDToken = <<>>
    THEN New(<<KindArg(KindIDTokenMissed), StrArg(<<"ID token is missed">>)>>)
    ELSE IF c.Endpoint = <<>>
    THEN New(<<KindArg(KindEndpointMissed), StrArg(<<"OpenID Connect endpoint is missed">>)>>)
    ELSE IF urlParse(c.Endpoint).err # Nil
    THEN New(<<KindArg(KindEndpointInvalid),
               StrArg(<<"OpenID Connect endpoint has an invalid value">>)>>)
    ELSE Nil

\* Logout, step 1: the validation error, or Nil
ValidateLogout(c) ==
    IF c.Endpoint = <<>>
    THEN New(<<KindArg(KindEndpointMissed), StrArg(<<"OpenID Connect endpoint is missed">>)>>)
    ELSE IF urlParse(c.Endpoint).err # Nil
    THEN New(<<KindArg(KindEndpointInvalid),
               StrArg(<<"OpenID Connect endpoint has an invalid value">>)>>)
    ELSE IF c.IDToken = <<>>
    THEN New(<<KindArg(KindIDTokenMissed), StrArg(<<"ID token is missed">>)>>)
    ELSE Nil

----------------------------------------------------------------------------
(* The world outside the program: the caller's inputs, the browser's       *)
(* product strings, the requests the provider makes the browser issue and  *)
(* the pages it renders.                                                   *)

\* the values of the argument chromeURL: empty to start a local Chrome process
ChromeURLs == {<<>>, <<"http://chrome">>}

\* config field values
Unset == <<>>
Endpoints == {<<>>, <<"http://op">>, <<"http://op", "/base">>, <<"http://op", BadEscape>>}

LoginConfigs ==
    [Endpoint : Endpoints, ClientID : {Unset, <<"client">>},
     RedirectURI : {Unset, <<"http://rp", "/cb">>}, Scopes : {Unset, <<"openid">>},
     Username : {Unset, <<"foo">>}, Password : {Unset, <<"bar">>},
     UsernameField : {Unset, <<"#user">>}, PasswordField : {Unset, <<"#pass">>},
     SubmitButton : {Unset, <<"#submit">>}, ErrorMessage : {Unset, <<"#error">>}]

LogoutConfigs == [Endpoint : Endpoints, IDToken : {Unset, <<"idtoken">>}]

\* the product strings browser.GetVersion may report
Products ==
    { <<"HeadlessChrome", "/", "70", ".", "0">>,
      <<"Chrome", "/", "69", ".", "0">>,
      <<"Chrome", "/", "beta">>,
      <<"Chrome">> }

\* a network.EventRequestIntercepted
Request(u, fragment, isNav) ==
    [URL |-> u, URLFragment |-> fragment, IsNavigationRequest |-> isNav]

\* Request.URL carries no fragment; URLFragment starts with '#' when present
Requests ==
    { Request(<<"http://op", "/login", "?", "login_challenge", "=", "c">>, <<>>, TRUE),
      Request(<<"http://op", "/error", "?", "error", "=", "e", "&",
                "error_description", "=", "d">>, <<>>, TRUE),
      Request(<<"http://op", "/error", "?", "error", "=", "e", "&",
                "error_description", "=", "d", "&", "error_hint", "=", "h">>, <<>>, TRUE),
      Request(<<"http://op", "/error", "?", "error", "=", "e", "&",
                "error_description", "=", "d", "+", "%25d">>, <<>>, TRUE),
      Request(<<"http://op", "/error", "?", "error_description", "=", "d", "&",
                "error_hint", "=", "h">>, <<>>, TRUE),
      Request(<<"http://rp", "/cb">>,
              <<"#", "access_token", "=", "A", "&", "id_token", "=", "B">>, TRUE),
      Request(<<"http://rp", "/cb", "?", "error", "=", "e">>,
              <<"#", "access_token", "=", "A", "&", "id_token", "=", "B">>, TRUE),
      Request(<<"http://rp", "/cb", "?", "error", "=", "e">>, <<"#", "x", "=", "y">>, TRUE),
      Request(<<"http://rp", "/cb">>, <<"#", "access_token", "=", "A">>, TRUE),
      Request(<<"http://rp", "/cb">>,
              <<"#", "access_token", "=", "&", "id_token", "=", "B">>, TRUE),
      Request(<<"http://op", "/frame">>, <<>>, FALSE),
      Request(<<"http://op", BadEscape>>, <<>>, TRUE) }

\* the request the browser issues for the URL of a navigate command
RequestOf(pageURL) ==
    LET h == IndexOf(pageURL, "#")
    IN  IF h = 0 THEN Request(pageURL, <<>>, TRUE)
        ELSE Request(Before(pageURL, h), SubSeq(pageURL, h, Len(pageURL)), TRUE)

\* a rendered page: which of the form's elements it has, whether an element
\* matches the error-message selector and its text, and the page's markup
Page(user, pass, submit, error, errText, html) ==
    [user |-> user, pass |-> pass, submit |-> submit, error |-> error,
     errText |-> errText, html |-> html]

BlankPage == Page(FALSE, FALSE, FALSE, FALSE, <<>>, <<"<html></html>">>)

Pages ==
    { BlankPage,
      Page(TRUE, FALSE, FALSE, FALSE, <<>>, <<"<html>user</html>">>),
      Page(TRUE, TRUE, FALSE, FALSE, <<>>, <<"<html>user pass</html>">>),
      Page(TRUE, TRUE, TRUE, FALSE, <<>>, <<"<html>form</html>">>),
      Page(TRUE, TRUE, TRUE, TRUE, <<>>, <<"<html>form error</html>">>),
      Page(TRUE, TRUE, TRUE, TRUE, <<"invalid password">>, <<"<html>form error</html>">>),
      Page(TRUE, TRUE, TRUE, TRUE, <<"\n", " ", "invalid password", " ">>,
           <<"<html>form error</html>">>),
      Page(TRUE, TRUE, TRUE, TRUE, <<" ", "\n">>, <<"<html>form error</html>">>),
      Page(FALSE, FALSE, FALSE, TRUE, <<"100", "%d", " ", "wrong">>,
           <<"<html>error</html>">>) }

----------------------------------------------------------------------------
(* The state of one Login or Logout call and of its browser session.       *)

VARIABLES
    op,          \* "Login" or "Logout": the call
    cnf,         \* the LoginConfig or LogoutConfig of the call
    pc,          \* the position of the call's goroutine
    ctxDone,     \* the caller's context is cancelled
    conn,        \* the browser connection: "none", "open", "cancelled"
    domains,     \* the CDP domains activated on the connection
    deferred,    \* the call has deferred the connection's cancel function
    teardowns,   \* how many times the call has run the deferred cancel
    entries,     \* navHistory.entries
    listening,   \* the history listener is installed
    intercepted, \* how many requests the listener was handed (their IDs are 1..intercepted)
    pending,     \* interception IDs whose continuation goroutine has not run yet
    continued,   \* interception IDs a continue command was issued for
    loading,     \* the browser is loading a page
    target,      \* the URL of a navigate command the browser has not requested yet
    page,        \* the page the browser shows
    waiters,     \* one record per PageLoadWaiterFunc call: its stoped flag and channel
    timer,       \* the timer of the wait in progress: "off", "running", "fired"
    waitErr,     \* what the wait function in progress returned
    woken,       \* the wait function's select: "" when it is not parked, "parked" when
                 \* it is blocked with no case ready, else the case that woke it up
    landingURL,  \* the navHistory.Last() the call read after its navigation (step 3)
    postLoginURL,\* the navHistory.Last() Login read after the submit (step 7)
    ops,         \* the operations the call performed, in order
    ret,         \* what the call returned: [data, err]
    crashed,     \* a goroutine panicked: the process is gone
    got,         \* an error a caller of the errors package has built
    want,        \* the error a caller of the errors package compares it with
    status,      \* the status the HTTP handler that made the call has answered with,
                 \* 0 as long as there is no answer (as for a call of the command line)
    request,     \* the HTTP request the handler serves: its body and the server's defaults
    sent,        \* the payload of the handler's answer
    remoteURL,   \* the argument chromeURL of a ConnectWithContext taken on its own
    chromeConfig, \* what the remote Chrome answers on <chromeURL>/json
    browserProduct, \* the product string the browser reports
    debuggerURL, \* the URL the remote allocator was created with
    requests,    \* the intercepted requests handed to the history listener, in order
    args,        \* the arguments of the latest call of errors.New
    calls        \* the concurrent invocations of Login and Logout, each with its own session

vars == <<op, cnf, pc, ctxDone, conn, domains, deferred, teardowns, entries,
          listening, intercepted, pending, continued, loading, target, page, waiters, timer,
          waitErr, woken, landingURL, postLoginURL, ops, ret, crashed, got, want, args, calls,
          status, request, sent, remoteURL, chromeConfig, browserProduct, debuggerURL,
          requests>>

urlVars == <<landingURL, postLoginURL>>

sessionVars == <<conn, domains, deferred, teardowns>>
historyVars == <<entries, listening, intercepted, pending, continued, requests>>
browserVars == <<loading, target, page>>
waitVars == <<waiters, timer, waitErr, woken>>
\* what no step of a call changes: its arguments, the errors of the errors
\* package's callers, and the answer of the HTTP handler
chromeVars == <<remoteURL, chromeConfig, browserProduct, debuggerURL>>
inputVars == <<op, cnf, got, want, args, calls, status, request, sent, chromeVars>>

DomainNetwork == "network"
DomainRuntime == "runtime"
domainPage == "page"

Init ==
    /\ op \in {"Login", "Logout"}
    /\ cnf \in IF op = "Login" THEN LoginConfigs ELSE LogoutConfigs
    /\ pc = "validate"
    /\ ctxDone = FALSE
    /\ conn = "none"
    /\ domains = {}
    /\ deferred = FALSE
    /\ teardowns = 0
    /\ entries = <<>> /\ requests = <<>>
    /\ listening = FALSE
    /\ intercepted = 0
    /\ pending = {}
    /\ continued = {}
    /\ loading = FALSE
    /\ target = <<>>
    /\ page = BlankPage
    /\ waiters = <<>>
    /\ timer = "off"
    /\ waitErr = Nil
    /\ woken = ""
    /\ landingURL = <<>>
    /\ postLoginURL = <<>>
    /\ ops = <<>>
    /\ ret = Nil
    /\ crashed = FALSE
    /\ got = Nil
    /\ want = Nil
    /\ args = <<>> /\ calls = <<>>
    /\ status = 0
    /\ request = Nil
    /\ sent = Nil
    /\ remoteURL = <<>>
    /\ chromeConfig = Nil
    /\ browserProduct = <<>>
    /\ debuggerURL = <<>>

----------------------------------------------------------------------------
(* Helpers of the actions.                                                 *)

\* the call's goroutine can take a step
Running == pc # "done" /\ ~crashed

\* what chromedp.Run can return on the session's context
RunErrs == IF ctxDone \/ conn # "open" THEN {ContextCanceled} ELSE {Nil, TransportError}

\* (h *NavHistory) Last
Last(h) == IF Len(h) = 0 THEN <<>> ELSE h[Len(h)]

\* a return that runs the cancel function at the end of the successful path
\* only, instead of deferring it
ReturnCancelOnSuccess(data, err) ==
    /\ pc' = "done"
    /\ ret' = [data |-> data, err |-> err]
    /\ IF deferred /\ err = Nil
       THEN /\ conn' = "cancelled"
            /\ teardowns' = teardowns + 1
            /\ UNCHANGED <<domains, deferred>>
       ELSE UNCHANGED sessionVars

\* a return of the call: the result is handed to the caller after the
\* deferred cancel function, if one was deferred, has run
Return(data, err) ==
    /\ pc' = "done"
    /\ ret' = [data |-> data, err |-> err]
    /\ IF deferred
       THEN /\ conn' = "cancelled"
            /\ teardowns' = teardowns + 1
            /\ UNCHANGED <<domains, deferred>>
       ELSE UNCHANGED sessionVars

\* the call goes on to the next position
Goto(next) ==
    /\ pc' = next
    /\ UNCHANGED <<ret, sessionVars>>

----------------------------------------------------------------------------
(* internal/chrome: ConnectWithContext.                                    *)

\* strconv.Atoi of a token string: [n, ok]
Atoi(s) ==
    IF Len(s) # 1 THEN [n |-> 0, ok |-> FALSE]
    ELSE CASE s[1] = "69" -> [n |-> 69, ok |-> TRUE]
           [] s[1] = "70" -> [n |-> 70, ok |-> TRUE]
           [] s[1] = "71" -> [n |-> 71, ok |-> TRUE]
           [] OTHER -> [n |-> 0, ok |-> FALSE]

\* majorVersion: the greedy match of ^(.+)/(.+)$ cuts at the last '/' that has
\* text on both sides; the version is split on '.'
majorVersion(product) ==
    LET cuts == {i \in 2..(Len(product) - 1) : product[i] = "/"}
    IN  IF cuts = {}
        THEN [major |-> 0, err |-> Plain(<<"invalid product">>)]
        ELSE LET cut == CHOOSE i \in cuts : \A j \in cuts : j <= i
                 verParts == SplitBy(After(product, cut), ".")
                 major == Atoi(verParts[1])
             IN  IF ~major.ok
                 THEN [major |-> 0, err |-> Plain(<<"invalid product version">>)]
                 ELSE [major |-> major.n, err |-> Nil]

\* the oldest major version of Chrome the program accepts
MinChromeVersion == 70

\* a prepareConn that lets a product string without a version number pass
prepareConnUnparsedPasses(versionErr, product, activateErr) ==
    IF versionErr # Nil THEN Wrap(versionErr, <<"get Chrome version">>, <<>>)
    ELSE LET v == majorVersion(product)
         IN  IF v.err = Nil /\ v.major < MinChromeVersion
             THEN New(<<StrArg(<<"unsupported Chrome version ", "%q">>), StrArg(product)>>)
             ELSE IF activateErr # Nil
             THEN Wrap(activateErr, <<"activate CDP domains">>, <<>>)
             ELSE Nil

\* prepareConn: the error it returns, given what the version query returned
\* and what the activation of the domains returned
prepareConn(versionErr, product, activateErr) ==
    IF versionErr # Nil THEN Wrap(versionErr, <<"get Chrome version">>, <<>>)
    ELSE LET v == majorVersion(product)
         IN  IF v.err # Nil
             THEN New(<<StrArg(<<"invalid Chrome version ", "%q">>), StrArg(product)>>)
             ELSE IF v.major < MinChromeVersion
             THEN New(<<StrArg(<<"unsupported Chrome version ", "%q">>), StrArg(product)>>)
             ELSE IF activateErr # Nil
             THEN Wrap(activateErr, <<"activate CDP domains">>, <<>>)
             ELSE Nil

\* the domains the call asks ConnectWithContext for
RequestedDomains == IF op = "Login" THEN {DomainNetwork, DomainRuntime} ELSE {DomainNetwork}

\* what a chromedp.Run inside ConnectWithContext can return
ConnectRunErrs == IF ctxDone THEN {ContextCanceled} ELSE {Nil, TransportError}

\* net/http status codes
StatusOK == 200
StatusBadRequest == 400
StatusInternalServerError == 500

\* the values of chromeURL that this part knows
RemoteChromeURLs == ChromeURLs \cup {<<"http://rp", BadEscape>>}

\* the elements of the array a Chrome configuration is: null, or an object
\* whose webSocketDebuggerUrl is a string, a number, or absent
ConfigElems ==
    { [kind |-> "null", url |-> <<>>],
      [kind |-> "object", url |-> <<>>],
      [kind |-> "number", url |-> <<>>],
      [kind |-> "object", url |-> <<"ws://chrome/1">>],
      [kind |-> "object", url |-> <<"ws://chrome/2">>] }

\* how long the arrays of the model are
MaxTargets == 2

\* the bodies of the answer: no byte, bytes that are not JSON, null, a JSON
\* object, an array
ConfigBodies ==
    {[kind |-> k, elems |-> <<>>] : k \in {"empty", "invalid", "null", "object"}}
      \cup {[kind |-> "array", elems |-> e] :
              e \in UNION {[1..n -> ConfigElems] : n \in 0..MaxTargets}}

ChromeConfigs == [status : {StatusOK, StatusInternalServerError}, body : ConfigBodies]

\* the product strings of this part
ChromeProducts ==
    Products \cup { <<"Chrome", "/", "71">>,
                    <<"Chrome", "/", "70", "/", "69", ".", "0">>,
                    <<"/", "70", ".", "0">> }

\* json.Unmarshal(b, &cnfs) with cnfs []*chromeConfig: the error, and cnfs
\* as a sequence of pointers, a nil pointer being Nil
Unmarshal(body) ==
    CASE body.kind \in {"empty", "invalid"} ->
            [err |-> Plain(<<"unexpected end of JSON input">>), cnfs |-> <<>>]
      [] body.kind = "object" ->
            [err |-> Plain(<<"json: cannot unmarshal object">>), cnfs |-> <<>>]
      [] body.kind = "null" -> [err |-> Nil, cnfs |-> <<>>]
      [] body.kind = "array" ->
            [err |-> IF \E i \in 1..Len(body.elems) : body.elems[i].kind = "number"
                     THEN Plain(<<"json: cannot unmarshal number">>) ELSE Nil,
             cnfs |-> [i \in 1..Len(body.elems) |->
                         IF body.elems[i].kind = "null" THEN Nil
                         ELSE [DebuggerURL |-> body.elems[i].url]]]

\* connectToRemoteChrome: whether it panics, the error it returns, and the
\* URL it creates the remote allocator with; loadErr is what the GET returned
connectToRemoteChrome(url, loadErr, resp) ==
    LET u == urlParse(url)
        j == Unmarshal(resp.body)
    IN  IF u.err # Nil
        THEN [panic |-> FALSE, err |-> Wrap(u.err, <<"invalid chrome url">>, <<>>),
              debuggerURL |-> <<>>]
        ELSE IF loadErr # Nil
        THEN [panic |-> FALSE, err |-> Wrap(loadErr, <<"load chrome config">>, <<>>),
              debuggerURL |-> <<>>]
        ELSE IF resp.status # StatusOK
        THEN \* the %d of the format gets an int
             [panic |-> FALSE,
              err |-> [Kind |-> KindOther, cause |-> Nil,
                       msg |-> <<"load chrome config: status code ", "500">>],
              debuggerURL |-> <<>>]
        ELSE IF j.err # Nil
        THEN [panic |-> FALSE, err |-> Wrap(j.err, <<"parse chrome config">>, <<>>),
              debuggerURL |-> <<>>]
        ELSE IF Len(j.cnfs) = 0
        THEN [panic |-> FALSE,
              err |-> IF resp.body.kind = "empty"
                      THEN New(<<StrArg(<<"unexpected empty chrome config">>)>>)
                      ELSE New(<<StrArg(<<"unexpected chrome config:\n", "%s">>),
                                 StrArg(<<resp.body.kind>>)>>),
              debuggerURL |-> <<>>]
        ELSE IF j.cnfs[1] = Nil
        THEN \* cnfs[0].DebuggerURL through a nil pointer
             [panic |-> TRUE, err |-> Nil, debuggerURL |-> <<>>]
        ELSE [panic |-> FALSE, err |-> Nil, debuggerURL |-> j.cnfs[1].DebuggerURL]

----------------------------------------------------------------------------
(* Login and Logout, step 1 and step 2.                                    *)

\* step 1: validate the input parameters
Validate ==
    /\ Running /\ pc = "validate"
    /\ ops' = Append(ops, "validate")
    /\ LET err == IF op = "Login" THEN ValidateLogin(cnf) ELSE ValidateLogout(cnf)
       IN  IF err # Nil THEN Return(Nil, err) ELSE Goto("connect")
    /\ UNCHANGED <<inputVars, ctxDone, historyVars, browserVars, waitVars, urlVars, crashed>>

\* step 2: ConnectWithContext fails before a connection exists: the remote
\* Chrome's configuration cannot be loaded or used, or reading it panics
ConnectRemoteFails ==
    /\ Running /\ pc = "connect"
    /\ ops' = Append(ops, "connect")
    /\ \E chromeURL \in RemoteChromeURLs \ {<<>>}, resp \in ChromeConfigs,
          loadErr \in IF ctxDone THEN {ContextCanceled}
                      ELSE {Nil, TransportError, ContextCanceled} :
          LET r == connectToRemoteChrome(chromeURL, loadErr, resp)
          IN  /\ r.panic \/ r.err # Nil
              /\ IF r.panic
                 THEN /\ crashed' = TRUE
                      /\ UNCHANGED <<pc, ret, sessionVars>>
                 ELSE /\ Return(Nil, Wrap(Wrap(r.err, <<"connect to remote Chrome process">>,
                                               <<>>),
                                          <<"connect to chrome">>, <<>>))
                      /\ UNCHANGED crashed
    /\ UNCHANGED <<inputVars, ctxDone, historyVars, browserVars, waitVars, urlVars>>

\* step 2: ConnectWithContext establishes the connection and prepares it;
\* on success the call defers the cancel function
Connect ==
    /\ Running /\ pc = "connect"
    /\ ops' = Append(ops, "connect")
    /\ \E chromeURL \in ChromeURLs, versionErr \in ConnectRunErrs, product \in Products,
          activateErr \in ConnectRunErrs :
          LET err == prepareConn(versionErr, product, activateErr)
          IN  IF err # Nil
              THEN /\ conn' = "cancelled"
                   /\ pc' = "done"
                   /\ ret' = [data |-> Nil, err |-> Wrap(err, <<"connect to chrome">>, <<>>)]
                   /\ UNCHANGED <<domains, deferred, teardowns>>
              ELSE /\ conn' = "open"
                   /\ domains' = {domainPage} \cup RequestedDomains
                   /\ deferred' = TRUE
                   /\ pc' = "history"
                   /\ UNCHANGED <<ret, teardowns>>
    /\ UNCHANGED <<inputVars, ctxDone, historyVars, browserVars, waitVars, urlVars, crashed>>

----------------------------------------------------------------------------
(* internal/chrome: NewNavHistory and its listener.                        *)

\* the listener's history entry for an intercepted navigation request:
\* the request's URL is parsed, the fragment without its '#' is put in,
\* and the URL is rendered again
HistoryEntry(v) ==
    LET rurl == urlParse(v.URL)
    IN  urlString(IF v.URLFragment # <<>>
                  THEN [rurl EXCEPT !.Fragment = Tail(v.URLFragment)]
                  ELSE rurl)

\* a continuation that waits for the continuations of the requests before
ContinueInOrder ==
    /\ ~crashed
    /\ \E id \in pending :
          /\ \A other \in pending : id <= other
          /\ pending' = pending \ {id}
          /\ \E e \in RunErrs :
                IF e # Nil
                THEN crashed' = TRUE /\ UNCHANGED continued
                ELSE continued' = continued \cup {id} /\ UNCHANGED crashed
    /\ UNCHANGED <<inputVars, pc, ctxDone, sessionVars, entries, listening, intercepted,
                   requests, browserVars, waitVars, urlVars, ops, ret>>

\* a listener that puts every intercepted request in the history
ListenerRecordsAll(v) ==
    /\ intercepted' = intercepted + 1
    /\ requests' = Append(requests, v)
    /\ IF urlParse(v.URL).err # Nil
       THEN /\ crashed' = TRUE
            /\ UNCHANGED <<entries, pending>>
       ELSE /\ entries' = Append(entries, HistoryEntry(v))
            /\ pending' = pending \cup {intercepted + 1}
            /\ UNCHANGED crashed

\* a listener that records the first navigation only
ListenerKeepsFirst(v) ==
    /\ intercepted' = intercepted + 1
    /\ requests' = Append(requests, v)
    /\ IF v.IsNavigationRequest /\ urlParse(v.URL).err # Nil
       THEN /\ crashed' = TRUE
            /\ UNCHANGED <<entries, pending>>
       ELSE /\ entries' = IF v.IsNavigationRequest /\ entries = <<>>
                          THEN Append(entries, HistoryEntry(v))
                          ELSE entries
            /\ pending' = pending \cup {intercepted + 1}
            /\ UNCHANGED crashed

\* the listener of NewNavHistory, called with a network.EventRequestIntercepted:
\* a navigation request is appended to the history (a URL that does not
\* parse makes the listener panic), and a goroutine is started to continue
\* the request, whose interception ID is its number
Listener(v) ==
    /\ intercepted' = intercepted + 1
    /\ requests' = Append(requests, v)
    /\ IF v.IsNavigationRequest /\ urlParse(v.URL).err # Nil
       THEN /\ crashed' = TRUE
            /\ UNCHANGED <<entries, pending>>
       ELSE /\ entries' = IF v.IsNavigationRequest
                          THEN Append(entries, HistoryEntry(v))
                          ELSE entries
            /\ pending' = pending \cup {intercepted + 1}
            /\ UNCHANGED crashed

\* Login/Logout: initialize the navigation history
NewNavHistory ==
    /\ Running /\ pc = "history"
    /\ ops' = Append(ops, "history")
    /\ \E e \in RunErrs :
          IF e # Nil
          THEN /\ Return(Nil, Wrap(Wrap(e, <<"initialize navigation history">>, <<>>),
                                   <<"initialize navigation history">>, <<>>))
               /\ UNCHANGED listening
          ELSE /\ Goto("navigate")
               /\ listening' = TRUE
    /\ UNCHANGED <<inputVars, ctxDone, entries, intercepted, pending, continued, requests,
                   browserVars, waitVars, urlVars, crashed>>

\* the browser hands an intercepted request to the history listener:
\* a navigation request is appended to the history (a URL that does not
\* parse makes the listener panic), and a goroutine is started to continue
\* the request.  The browser pauses an intercepted request until it is
\* continued, so the next request of the load comes after that.
RequestIntercepted ==
    /\ ~crashed /\ listening /\ loading /\ conn = "open" /\ ~ctxDone
    /\ pending = {}
    /\ intercepted < MaxIntercepts
    /\ \E v \in IF target # <<>> THEN {RequestOf(target)} ELSE Requests :
          /\ Listener(v)
          /\ target' = <<>>
    /\ UNCHANGED <<inputVars, pc, ctxDone, sessionVars, listening, continued, loading, page,
                   waitVars, urlVars, ops, ret>>

\* the goroutine of an intercepted request runs ContinueInterceptedRequest;
\* it panics when the command fails
ContinueInterceptedRequest ==
    /\ ~crashed
    /\ \E id \in pending :
          /\ pending' = pending \ {id}
          /\ \E e \in RunErrs :
                IF e # Nil
                THEN crashed' = TRUE /\ UNCHANGED continued
                ELSE continued' = continued \cup {id} /\ UNCHANGED crashed
    /\ UNCHANGED <<inputVars, pc, ctxDone, sessionVars, entries, listening, intercepted,
                   requests, browserVars, waitVars, urlVars, ops, ret>>

----------------------------------------------------------------------------
(* internal/chrome: PageLoadWaiterFunc and Navigate.                       *)

\* the timeout of the wait after the submit, in seconds
SubmitTimeout == 5

\* PageLoadWaiterFunc: the listener's flag and the channel (the number of
\* signals in it) of a new waiter
PageLoadWaiterFunc(strict, timeout) ==
    [strict |-> strict, timeout |-> timeout, stoped |-> FALSE, ch |-> 0]

\* a listener without the latch: it signals on every page-load event
OnEventNoLatch(w, ev) ==
    IF ev = "Page.loadEventFired"
    THEN [w EXCEPT !.stoped = TRUE, !.ch = @ + 1]
    ELSE w

\* a listener that signals only a wait function that is already blocked in
\* its select, as a send without buffer that does not wait would
OnEventUnbuffered(w, ev) ==
    IF w.stoped THEN w
    ELSE IF ev = "Page.loadEventFired"
         THEN [w EXCEPT !.stoped = TRUE, !.ch = IF woken = "parked" THEN @ + 1 ELSE @]
         ELSE w

\* the waiter's listener, called with an event of the target
OnEvent(w, ev) ==
    IF w.stoped THEN w
    ELSE IF ev = "Page.loadEventFired"
         THEN [w EXCEPT !.stoped = TRUE, !.ch = @ + 1]
         ELSE w

\* a select whose load case is ready whether or not the listener has signalled
ReadyCasesLoadAlways(w) ==
    {"load"}
      \cup (IF timer = "fired" THEN {"timeout"} ELSE {})
      \cup (IF ctxDone \/ conn # "open" THEN {"done"} ELSE {})

\* the cases of the wait function's select that are ready
ReadyCases(w) ==
    (IF w.ch > 0 THEN {"load"} ELSE {})
      \cup (IF timer = "fired" THEN {"timeout"} ELSE {})
      \cup (IF ctxDone \/ conn # "open" THEN {"done"} ELSE {})

\* a wait function that reports a cancellation as a timeout
WaitResultDoneAsTimeout(case) ==
    CASE case = "load" -> Nil
      [] case = "timeout" -> New(<<KindArg(KindTimeout), StrArg(<<"timeout">>)>>)
      [] case = "done" -> New(<<KindArg(KindTimeout), StrArg(<<"timeout">>)>>)

\* a wait function that takes the end of its timer for the end of the load
WaitResultTimeoutAsLoad(case) ==
    CASE case = "load" -> Nil
      [] case = "timeout" -> Nil
      [] case = "done" -> ContextCanceled

\* what the wait function returns for the case select took
WaitResult(case) ==
    CASE case = "load" -> Nil
      [] case = "timeout" -> New(<<KindArg(KindTimeout), StrArg(<<"timeout">>)>>)
      [] case = "done" -> ContextCanceled

\* the message Login and Logout wrap a failure of Navigate with
NavigateMsg ==
    IF op = "Login" THEN <<"navigate to the login page">>
    ELSE <<"navigate to the logout page">>

\* the URL Login and Logout navigate to
PageURL ==
    IF op = "Login"
    THEN buildLoginURL(urlParse(cnf.Endpoint), cnf.ClientID, cnf.RedirectURI, cnf.Scopes)
    ELSE buildLogoutURL(urlParse(cnf.Endpoint), cnf.IDToken)

\* step 3, chrome.Navigate: create the waiter, then issue the navigation
Navigate ==
    /\ Running /\ pc = "navigate"
    /\ ops' = Append(ops, "navigate")
    /\ waiters' = Append(waiters, PageLoadWaiterFunc(TRUE, 0))
    /\ \E e \in RunErrs :
          IF e # Nil
          THEN /\ Return(Nil, Wrap(e, NavigateMsg, <<>>))
               /\ UNCHANGED <<loading, target>>
          ELSE /\ Goto("navigate_wait")
               /\ loading' = TRUE
               /\ target' = PageURL
    /\ UNCHANGED <<inputVars, ctxDone, historyVars, page, timer, waitErr, woken, urlVars,
                   crashed>>

\* the first case that becomes ready wakes a parked select up, and that case
\* is the one the select takes
Wake(case) == IF woken = "parked" THEN case ELSE woken

\* the wait function is invoked: it starts its timer when it has a timeout
WaitInvoke ==
    /\ Running /\ pc \in {"navigate_wait", "submit_wait"}
    /\ ops' = Append(ops, "wait")
    /\ timer' = IF waiters[Len(waiters)].timeout > 0 THEN "running" ELSE "off"
    /\ pc' = IF pc = "navigate_wait" THEN "navigate_select" ELSE "submit_select"
    /\ UNCHANGED <<inputVars, ctxDone, sessionVars, historyVars, browserVars, waiters,
                   waitErr, woken, urlVars, ret, crashed>>

\* the wait function's select finds no case ready and blocks
WaitPark ==
    /\ Running /\ pc \in {"navigate_select", "submit_select"}
    /\ woken = "" /\ ReadyCases(waiters[Len(waiters)]) = {}
    /\ woken' = "parked"
    /\ UNCHANGED <<inputVars, pc, ctxDone, sessionVars, historyVars, browserVars, waiters,
                   timer, waitErr, urlVars, ops, ret, crashed>>

\* the timer of the wait in progress fires
TimerFires ==
    /\ ~crashed /\ timer = "running"
    /\ timer' = "fired"
    /\ woken' = Wake("timeout")
    /\ UNCHANGED <<inputVars, pc, ctxDone, sessionVars, historyVars, browserVars, waiters,
                   waitErr, urlVars, ops, ret, crashed>>

\* the wait function's select takes a ready case and the wait function
\* returns; the caller wraps and returns an error
WaitSelect ==
    /\ Running /\ pc \in {"navigate_select", "submit_select"}
    /\ woken # "parked"
    /\ \E case \in (IF woken = "" THEN ReadyCases(waiters[Len(waiters)]) ELSE {woken}) :
          /\ waitErr' = WaitResult(case)
          /\ woken' = IF waitErr' # Nil THEN woken ELSE ""
          /\ waiters' = IF case = "load"
                        THEN [waiters EXCEPT ![Len(waiters)].ch = @ - 1]
                        ELSE waiters
          /\ IF waitErr' # Nil
             THEN Return(Nil, Wrap(waitErr',
                                   IF pc = "navigate_select" THEN NavigateMsg
                                   ELSE <<"wait for submiting the login form">>, <<>>))
             ELSE Goto(IF pc = "navigate_select" THEN "check" ELSE "classify")
    /\ timer' = "off"
    /\ UNCHANGED <<inputVars, ctxDone, historyVars, browserVars, urlVars, ops, crashed>>

\* the browser finishes loading a page: it shows the page and the load
\* event is handed to every listener.  A page whose request is paused at
\* the interception does not finish loading.
LoadEventFired ==
    /\ ~crashed /\ loading /\ conn = "open" /\ ~ctxDone
    /\ pending = {} /\ target = <<>>
    /\ loading' = FALSE
    /\ page' \in Pages
    /\ UNCHANGED target
    /\ waiters' = [i \in DOMAIN waiters |-> OnEvent(waiters[i], "Page.loadEventFired")]
    /\ woken' = IF waiters' # <<>> /\ waiters'[Len(waiters')].ch > 0 THEN Wake("load") ELSE woken
    /\ UNCHANGED <<inputVars, pc, ctxDone, sessionVars, historyVars, timer, waitErr,
                   urlVars, ops, ret, crashed>>

\* the caller cancels the context of the call
Cancel ==
    /\ Running /\ ~ctxDone
    /\ ctxDone' = TRUE
    /\ woken' = Wake("done")
    /\ UNCHANGED <<inputVars, pc, sessionVars, historyVars, browserVars, waiters, timer, waitErr,
                   urlVars, ops, ret, crashed>>

----------------------------------------------------------------------------
(* Login steps 3 to 7, and the end of Logout.                              *)

\* step 3 where only Logout looks at the provider's error
CheckOIDCErrorLogoutOnly ==
    /\ Running /\ pc = "check"
    /\ ops' = Append(ops, "extractOIDCError")
    /\ landingURL' = Last(entries)
    /\ LET err == extractOIDCError(landingURL')
       IN  IF op = "Logout" THEN Return(Nil, err)
           ELSE Goto("read_page")
    /\ UNCHANGED <<inputVars, ctxDone, historyVars, browserVars, waitVars, postLoginURL,
                   crashed>>

\* step 3 (and the last step of Logout): classify the last navigation
CheckOIDCError ==
    /\ Running /\ pc = "check"
    /\ ops' = Append(ops, "extractOIDCError")
    /\ landingURL' = Last(entries)
    /\ LET err == extractOIDCError(landingURL')
       IN  IF err # Nil THEN Return(Nil, err)
           ELSE IF op = "Logout" THEN Return(Nil, Nil)
           ELSE Goto("read_page")
    /\ UNCHANGED <<inputVars, ctxDone, historyVars, browserVars, waitVars, postLoginURL,
                   crashed>>

\* step 3: read the login page's markup for the debug log
ReadLoginPage ==
    /\ Running /\ pc = "read_page"
    /\ ops' = Append(ops, "OuterHTML")
    /\ \E e \in RunErrs :
          IF e # Nil
          THEN Return(Nil, Wrap(e, <<"get the login page's content">>, <<>>))
          ELSE Goto("has_username")
    /\ UNCHANGED <<inputVars, ctxDone, historyVars, browserVars, waitVars, urlVars, crashed>>

\* formHasElement taking the probe's answer for granted
formHasElementNoCheck(name, has, hasErr, kind) ==
    IF hasErr # Nil THEN Wrap(hasErr, <<"find ", "%s">>, <<name>>) ELSE Nil

\* formHasElement reporting an absent element with the Kind of a missing selector
formHasElementMissedKind(name, has, hasErr, kind) ==
    IF hasErr # Nil THEN Wrap(hasErr, <<"find ", "%s">>, <<name>>)
    ELSE IF ~has
    THEN New(<<KindArg(KindUsernameFieldMissed),
               StrArg(<<"the login form does not contains ", "%s">>), StrArg(name)>>)
    ELSE Nil

\* formHasElement: the error it returns, given what chrome.HasElement returned
formHasElement(name, has, hasErr, kind) ==
    IF hasErr # Nil THEN Wrap(hasErr, <<"find ", "%s">>, <<name>>)
    ELSE IF ~has
    THEN New(<<KindArg(kind), StrArg(<<"the login form does not contains ", "%s">>),
               StrArg(name)>>)
    ELSE Nil

\* step 4: probe the username field
HasUsernameField ==
    /\ Running /\ pc = "has_username"
    /\ ops' = Append(ops, "HasElement username")
    /\ \E e \in RunErrs :
          LET err == formHasElement(<<"the username field">>, page.user, e,
                                    KindUsernameFieldInvalid)
          IN  IF err # Nil THEN Return(Nil, err) ELSE Goto("has_password")
    /\ UNCHANGED <<inputVars, ctxDone, historyVars, browserVars, waitVars, urlVars, crashed>>

\* step 4: probe the password field
HasPasswordField ==
    /\ Running /\ pc = "has_password"
    /\ ops' = Append(ops, "HasElement password")
    /\ \E e \in RunErrs :
          LET err == formHasElement(<<"the password field">>, page.pass, e,
                                    KindPasswordFieldInvalid)
          IN  IF err # Nil THEN Return(Nil, err) ELSE Goto("has_submit")
    /\ UNCHANGED <<inputVars, ctxDone, historyVars, browserVars, waitVars, urlVars, crashed>>

\* step 4: probe the submit button
HasSubmitButton ==
    /\ Running /\ pc = "has_submit"
    /\ ops' = Append(ops, "HasElement submit")
    /\ \E e \in RunErrs :
          LET err == formHasElement(<<"the submit button">>, page.submit, e,
                                    KindSubmitButtonInvalid)
          IN  IF err # Nil THEN Return(Nil, err) ELSE Goto("fill_username")
    /\ UNCHANGED <<inputVars, ctxDone, historyVars, browserVars, waitVars, urlVars, crashed>>

\* a step 5 that never types the password
FillUsernameOnly ==
    /\ Running /\ pc = "fill_username"
    /\ ops' = Append(ops, "SendKeys username")
    /\ \E e \in RunErrs :
          IF e # Nil
          THEN Return(Nil, Wrap(e, <<"fill the username field">>, <<>>))
          ELSE Goto("submit")
    /\ UNCHANGED <<inputVars, ctxDone, historyVars, browserVars, waitVars, urlVars, crashed>>

\* step 5: type the username
FillUsername ==
    /\ Running /\ pc = "fill_username"
    /\ ops' = Append(ops, "SendKeys username")
    /\ \E e \in RunErrs :
          IF e # Nil
          THEN Return(Nil, Wrap(e, <<"fill the username field">>, <<>>))
          ELSE Goto(IF cnf.Password # <<>> THEN "fill_password" ELSE "submit")
    /\ UNCHANGED <<inputVars, ctxDone, historyVars, browserVars, waitVars, urlVars, crashed>>

\* step 5: type the password, when there is one
FillPassword ==
    /\ Running /\ pc = "fill_password"
    /\ ops' = Append(ops, "SendKeys password")
    /\ \E e \in RunErrs :
          IF e # Nil
          THEN Return(Nil, Wrap(e, <<"fill the password field">>, <<>>))
          ELSE Goto("submit")
    /\ UNCHANGED <<inputVars, ctxDone, historyVars, browserVars, waitVars, urlVars, crashed>>

\* step 6: create the waiter, then click the submit button; the click may
\* or may not make the browser load a page
Submit ==
    /\ Running /\ pc = "submit"
    /\ ops' = Append(ops, "Click")
    /\ waiters' = Append(waiters, PageLoadWaiterFunc(FALSE, SubmitTimeout))
    /\ \E e \in RunErrs :
          IF e # Nil
          THEN /\ Return(Nil, Wrap(e, <<"submit the login form">>, <<>>))
               /\ UNCHANGED loading
          ELSE /\ Goto("submit_wait")
               /\ loading' \in BOOLEAN
    /\ UNCHANGED <<inputVars, ctxDone, historyVars, target, page, timer, waitErr, woken,
                   urlVars, crashed>>

\* step 7 looking for the provider's error before the tokens
ClassifyErrorFirst ==
    /\ Running /\ pc = "classify"
    /\ ops' = Append(ops, "extractOIDCTokens")
    /\ postLoginURL' = Last(entries)
    /\ LET r == extractOIDCTokens(postLoginURL')
           err == extractOIDCError(postLoginURL')
       IN  IF err # Nil THEN Return(Nil, err)
           ELSE IF r.err # Nil
           THEN Return(Nil, Wrap(r.err, <<"extract OpenID Connect tokens">>, <<>>))
           ELSE IF r.data # Nil THEN Return(r.data, Nil)
           ELSE Goto("classify_error")
    /\ UNCHANGED <<inputVars, ctxDone, historyVars, browserVars, waitVars, landingURL,
                   crashed>>

\* step 7: read the last navigation and look for the tokens in it
Classify ==
    /\ Running /\ pc = "classify"
    /\ ops' = Append(ops, "extractOIDCTokens")
    /\ postLoginURL' = Last(entries)
    /\ LET r == extractOIDCTokens(postLoginURL')
       IN  IF r.err # Nil
           THEN Return(Nil, Wrap(r.err, <<"extract OpenID Connect tokens">>, <<>>))
           ELSE IF r.data # Nil THEN Return(r.data, Nil)
           ELSE Goto("classify_error")
    /\ UNCHANGED <<inputVars, ctxDone, historyVars, browserVars, waitVars, landingURL,
                   crashed>>

\* step 7 going to the error message without a look at the provider's error
ClassifyErrorSkipped ==
    /\ Running /\ pc = "classify_error"
    /\ ops' = Append(ops, "extractOIDCError")
    /\ Goto("error_message")
    /\ UNCHANGED <<inputVars, ctxDone, historyVars, browserVars, waitVars, urlVars, crashed>>

\* step 7: look for the provider's error in the post-login URL
ClassifyError ==
    /\ Running /\ pc = "classify_error"
    /\ ops' = Append(ops, "extractOIDCError")
    /\ LET err == extractOIDCError(postLoginURL)
       IN  IF err # Nil THEN Return(Nil, err) ELSE Goto("error_message")
    /\ UNCHANGED <<inputVars, ctxDone, historyVars, browserVars, waitVars, urlVars, crashed>>

\* chrome.Text: [text, err], given what HasElement and chromedp.Text returned
Text(hasErr, textErr) ==
    IF hasErr # Nil THEN [text |-> <<>>, err |-> hasErr]
    ELSE IF ~page.error THEN [text |-> <<>>, err |-> Nil]
    ELSE IF textErr # Nil THEN [text |-> <<>>, err |-> textErr]
    ELSE [text |-> page.errText, err |-> Nil]

\* the login-failure error made of the error message's text
LoginErrorOf(errMsg) == New(<<KindArg(KindLoginError), StrArg(TrimSpace(errMsg))>>)

\* step 7: read the text of the error message
ErrorMessage ==
    /\ Running /\ pc = "error_message"
    /\ ops' = Append(ops, "Text")
    /\ \E hasErr \in RunErrs, textErr \in RunErrs :
          LET r == Text(hasErr, textErr)
          IN  IF r.err # Nil
              THEN Return(Nil, Wrap(r.err, <<"find submiting error message">>, <<>>))
              ELSE IF r.text # <<>> THEN Return(Nil, LoginErrorOf(r.text))
              ELSE Goto("error_page")
    /\ UNCHANGED <<inputVars, ctxDone, historyVars, browserVars, waitVars, urlVars, crashed>>

\* the login-failure error of an unexpected page
UnexpectedPageError(url, errPageContent) ==
    New(<<KindArg(KindLoginError),
          StrArg(<<"unexpected error page ", "%q", "\n", "%s">>),
          StrArg(url), StrArg(errPageContent)>>)

\* step 7: an unexpected page: read its markup and return it as the error
ErrorPage ==
    /\ Running /\ pc = "error_page"
    /\ ops' = Append(ops, "OuterHTML")
    /\ \E e \in RunErrs :
          IF e # Nil
          THEN Return(Nil, Wrap(e, <<"read error page content">>, <<>>))
          ELSE Return(Nil, UnexpectedPageError(postLoginURL, page.html))
    /\ UNCHANGED <<inputVars, ctxDone, historyVars, browserVars, waitVars, urlVars, crashed>>

----------------------------------------------------------------------------
(* internal/web: the handlers of POST /login and POST /logout, after the   *)
(* call they made has returned.                                            *)

\* the Kinds isValidationError looks for
validationErrors ==
    <<KindEndpointMissed, KindClientIDMissed, KindRedirectURIMissed, KindScopesMissed,
      KindUsernameMissed, KindUsernameFieldMissed, KindPasswordFieldMissed,
      KindSubmitButtonMissed, KindErrorMessageMissed, KindEndpointInvalid>>

isValidationError(err) ==
    IF ~IsError(err) THEN FALSE
    ELSE \E i \in 1..Len(validationErrors) : validationErrors[i] = err.Kind

\* the status the handler answers with for the error of the call
handlerStatus(err) ==
    IF err # Nil
    THEN IF isValidationError(err) THEN StatusBadRequest ELSE StatusInternalServerError
    ELSE StatusOK

\* http.StatusText
StatusText(code) ==
    CASE code = StatusOK -> <<"OK">>
      [] code = StatusBadRequest -> <<"Bad Request">>
      [] code = StatusInternalServerError -> <<"Internal Server Error">>

\* an ErrorData
ErrorData(message) == [message |-> message]

\* httpError: the ErrorData it answers with
httpError(code, message, params) ==
    LET msg == IF code >= 500 \/ message = <<>> THEN StatusText(code) ELSE <<>>
    IN  ErrorData(Sprintf(msg, params))

\* the payload the handler answers with for what the call returned
handlerPayload(r) ==
    IF r.err # Nil
    THEN IF isValidationError(r.err)
         THEN httpError(StatusBadRequest, ErrorString(r.err), <<>>)
         ELSE httpError(StatusInternalServerError, <<>>, <<>>)
    ELSE r.data

\* the handler answers the request when loginFn or logoutFn has returned
Respond ==
    /\ pc = "done" /\ ~crashed /\ status = 0
    /\ status' = handlerStatus(ret.err)
    /\ sent' = handlerPayload(ret)
    /\ UNCHANGED <<op, cnf, got, want, args, calls, request, chromeVars, pc, ctxDone, sessionVars, historyVars, browserVars,
                   waitVars, urlVars, ops, ret, crashed>>

----------------------------------------------------------------------------
(* The specification.                                                      *)

Next ==
    \/ Validate
    \/ ConnectRemoteFails
    \/ Connect
    \/ NewNavHistory
    \/ RequestIntercepted
    \/ ContinueInterceptedRequest
    \/ Navigate
    \/ WaitInvoke
    \/ TimerFires
    \/ WaitPark
    \/ WaitSelect
    \/ LoadEventFired
    \/ Cancel
    \/ CheckOIDCError
    \/ ReadLoginPage
    \/ HasUsernameField
    \/ HasPasswordField
    \/ HasSubmitButton
    \/ FillUsername
    \/ FillPassword
    \/ Submit
    \/ Classify
    \/ ClassifyError
    \/ ErrorMessage
    \/ ErrorPage
    \/ Respond

Spec == Init /\ [][Next]_vars

----------------------------------------------------------------------------
(* internal/web on its own: a handler decodes the body of the request over *)
(* the server's defaults, calls the login or logout function it was given  *)
(* and answers.                                                            *)

\* the JSON names of the fields of LoginConfig and LogoutConfig
LoginTags ==
    [Endpoint |-> "endpoint", ClientID |-> "clientId", RedirectURI |-> "redirectUri",
     Scopes |-> "scopes", Username |-> "username", Password |-> "password",
     UsernameField |-> "usernameField", PasswordField |-> "passwordField",
     SubmitButton |-> "submitButton", ErrorMessage |-> "errorMessage"]
LogoutTags == [Endpoint |-> "endpoint", IDToken |-> "idToken"]

\* the fields of web.Defaults
DefaultFields ==
    {"RedirectURI", "Scopes", "UsernameField", "PasswordField", "SubmitButton", "ErrorMessage"}

\* the defaults a server may be started with
ServerDefaults ==
    { [f \in DefaultFields |-> <<"default", f>>],
      [f \in DefaultFields |-> IF f = "Scopes" THEN <<>> ELSE <<"default", f>>] }

\* the names a body may give the empty string to
EmptyNames == {"redirectUri", "idToken"}

\* the requests: without body, with a body that is not JSON, with a JSON
\* object that has some of the names, some of them with the empty string
WebRequestsOf(tags, defaults) ==
    LET all == {tags[f] : f \in DOMAIN tags}
    IN  {[kind |-> k, names |-> {}, empty |-> {}, defaults |-> defaults] :
            k \in {"nobody", "invalid"}}
          \cup {[kind |-> "json", names |-> S, empty |-> E, defaults |-> defaults] :
                  S \in SUBSET all, E \in SUBSET EmptyNames}
WebRequests(o) ==
    LET tags == IF o = "Login" THEN LoginTags ELSE LogoutTags
    IN  {r \in UNION {WebRequestsOf(tags, d) : d \in ServerDefaults} :
            r.empty \subseteq r.names}

\* the value the body gives a name
BodyValue(body, tag) == IF tag \in body.empty THEN <<>> ELSE <<"body", tag>>

\* a Decode that keeps what the config already has
DecodeKeepsSet(tags, body, into) ==
    [f \in DOMAIN tags |->
        IF tags[f] \in body.names /\ into[f] = <<>>
        THEN BodyValue(body, tags[f]) ELSE into[f]]

\* json.Decoder.Decode into a config: the names of the body overwrite its fields
Decode(tags, body, into) ==
    [f \in DOMAIN tags |->
        IF tags[f] \in body.names THEN BodyValue(body, tags[f]) ELSE into[f]]

\* the config the handler starts from
InitialConfig(o, defaults) ==
    IF o = "Login"
    THEN [f \in DOMAIN LoginTags |-> IF f \in DefaultFields THEN defaults[f] ELSE <<>>]
    ELSE [f \in DOMAIN LogoutTags |-> <<>>]

\* what the function given to the handler may return
FnResults(o) ==
    IF o = "Login"
    THEN { [data |-> LoginData(<<"A">>, <<"B">>), err |-> Nil],
           [data |-> Nil,
            err |-> New(<<KindArg(KindUsernameMissed), StrArg(<<"username is missed">>)>>)],
           [data |-> Nil,
            err |-> New(<<KindArg(KindLoginError), StrArg(<<"invalid password">>)>>)],
           [data |-> Nil, err |-> Wrap(ContextCanceled, <<"connect to chrome">>, <<>>)] }
    ELSE { [data |-> Nil, err |-> Nil],
           [data |-> Nil,
            err |-> New(<<KindArg(KindIDTokenMissed), StrArg(<<"ID token is missed">>)>>)],
           [data |-> Nil,
            err |-> New(<<KindArg(KindEndpointMissed),
                          StrArg(<<"OpenID Connect endpoint is missed">>)>>)],
           [data |-> Nil, err |-> New(<<KindArg(KindOIDCError), StrArg(<<"d">>)>>)] }

\* everything of a call but what the handler touches
webIdleVars ==
    <<ctxDone, conn, domains, deferred, teardowns, entries, requests, listening, intercepted,
      pending, continued, loading, target, page, waiters, timer, waitErr, woken,
      landingURL, postLoginURL, ops, crashed, got, want, args, calls, chromeVars>>

WebInit ==
    /\ op \in {"Login", "Logout"}
    /\ request \in WebRequests(op)
    /\ cnf = Nil /\ pc = "decode" /\ ret = Nil /\ status = 0 /\ sent = Nil
    /\ ctxDone = FALSE /\ conn = "none" /\ domains = {}
    /\ deferred = FALSE /\ teardowns = 0 /\ entries = <<>> /\ requests = <<>> /\ listening = FALSE
    /\ intercepted = 0 /\ pending = {} /\ continued = {} /\ loading = FALSE
    /\ target = <<>> /\ page = BlankPage /\ waiters = <<>> /\ timer = "off"
    /\ waitErr = Nil /\ woken = "" /\ landingURL = <<>> /\ postLoginURL = <<>>
    /\ ops = <<>> /\ crashed = FALSE /\ got = Nil /\ want = Nil /\ args = <<>> /\ calls = <<>>
    /\ remoteURL = <<>> /\ chromeConfig = Nil /\ browserProduct = <<>> /\ debuggerURL = <<>>

\* the handler builds the config; a body that is not JSON ends the request
HandlerDecode ==
    /\ pc = "decode"
    /\ IF request.kind = "invalid"
       THEN /\ status' = StatusBadRequest
            /\ sent' = httpError(StatusBadRequest, <<"invalid body">>, <<>>)
            /\ pc' = "rejected"
            /\ UNCHANGED cnf
       ELSE /\ cnf' = IF request.kind = "nobody"
                      THEN InitialConfig(op, request.defaults)
                      ELSE Decode(IF op = "Login" THEN LoginTags ELSE LogoutTags,
                                  request, InitialConfig(op, request.defaults))
            /\ pc' = "call"
            /\ UNCHANGED <<status, sent>>
    /\ UNCHANGED <<op, request, ret, webIdleVars>>

\* the handler calls loginFn or logoutFn with the config
HandlerCall ==
    /\ pc = "call"
    /\ ret' \in FnResults(op)
    /\ pc' = "done"
    /\ UNCHANGED <<op, request, cnf, status, sent, webIdleVars>>

WebNext ==
    \/ HandlerDecode
    \/ HandlerCall
    \/ Respond

WebSpec == WebInit /\ [][WebNext]_vars

----------------------------------------------------------------------------
(* internal/chrome: ConnectWithContext on its own, with the answer of the  *)
(* remote Chrome's /json endpoint and the product string spelled out.      *)

\* what the GET of the configuration can return
LoadErrs == IF ctxDone THEN {ContextCanceled} ELSE {Nil, TransportError}

\* what a chromedp.Run on the new context can return: the browser cannot be
\* dialled at an empty debugger URL
PrepareRunErrs ==
    IF ctxDone THEN {ContextCanceled}
    ELSE IF remoteURL # <<>> /\ debuggerURL = <<>> THEN {TransportError}
    ELSE {Nil, TransportError}

chromeIdleVars ==
    <<cnf, deferred, teardowns, entries, requests, listening, intercepted, pending, continued,
      loading, target, page, waiters, timer, waitErr, woken, landingURL, postLoginURL,
      ops, got, want, args, calls, status, request, sent>>

ChromeInit ==
    /\ op \in {"Login", "Logout"}
    /\ remoteURL \in RemoteChromeURLs
    /\ chromeConfig \in ChromeConfigs
    /\ browserProduct \in ChromeProducts
    /\ ctxDone \in BOOLEAN
    /\ debuggerURL = <<>>
    /\ cnf = Nil /\ pc = "connect" /\ ret = Nil /\ status = 0 /\ sent = Nil
    /\ request = Nil /\ conn = "none" /\ domains = {}
    /\ deferred = FALSE /\ teardowns = 0 /\ entries = <<>> /\ requests = <<>> /\ listening = FALSE
    /\ intercepted = 0 /\ pending = {} /\ continued = {} /\ loading = FALSE
    /\ target = <<>> /\ page = BlankPage /\ waiters = <<>> /\ timer = "off"
    /\ waitErr = Nil /\ woken = "" /\ landingURL = <<>> /\ postLoginURL = <<>>
    /\ ops = <<>> /\ crashed = FALSE /\ got = Nil /\ want = Nil /\ args = <<>> /\ calls = <<>>

\* remoteURL is empty: a context for a new Chrome process
NewLocalContext ==
    /\ pc = "connect" /\ ~crashed /\ remoteURL = <<>>
    /\ conn' = "open"
    /\ pc' = "prepare"
    /\ UNCHANGED <<op, ctxDone, domains, ret, crashed, chromeVars, chromeIdleVars>>

\* remoteURL is given: the configuration is loaded and a context is made
\* for the debugger URL of its first target
ConnectToRemoteChrome ==
    /\ pc = "connect" /\ ~crashed /\ remoteURL # <<>>
    /\ \E loadErr \in LoadErrs :
          LET r == connectToRemoteChrome(remoteURL, loadErr, chromeConfig)
          IN  IF r.panic
              THEN /\ crashed' = TRUE
                   /\ UNCHANGED <<pc, conn, ret, debuggerURL>>
              ELSE IF r.err # Nil
              THEN /\ pc' = "done"
                   /\ ret' = [data |-> Nil,
                              err |-> Wrap(r.err, <<"connect to remote Chrome process">>, <<>>)]
                   /\ UNCHANGED <<conn, crashed, debuggerURL>>
              ELSE /\ conn' = "open"
                   /\ debuggerURL' = r.debuggerURL
                   /\ pc' = "prepare"
                   /\ UNCHANGED <<ret, crashed>>
    /\ UNCHANGED <<op, ctxDone, domains, remoteURL, chromeConfig, browserProduct, chromeIdleVars>>

\* a ConnectWithContext that returns the error of prepareConn without
\* cancelling the context
PrepareConnNoCancel ==
    /\ pc = "prepare" /\ ~crashed
    /\ \E versionErr \in PrepareRunErrs, activateErr \in PrepareRunErrs :
          LET err == prepareConn(versionErr, browserProduct, activateErr)
          IN  /\ ret' = [data |-> Nil, err |-> err]
              /\ IF err # Nil
                 THEN UNCHANGED <<conn, domains>>
                 ELSE domains' = {domainPage} \cup RequestedDomains /\ UNCHANGED conn
    /\ pc' = "done"
    /\ UNCHANGED <<op, ctxDone, crashed, chromeVars, chromeIdleVars>>

\* prepareConn on the new context; the context is cancelled when it fails
PrepareConn ==
    /\ pc = "prepare" /\ ~crashed
    /\ \E versionErr \in PrepareRunErrs, activateErr \in PrepareRunErrs :
          LET err == prepareConn(versionErr, browserProduct, activateErr)
          IN  /\ ret' = [data |-> Nil, err |-> err]
              /\ IF err # Nil
                 THEN conn' = "cancelled" /\ UNCHANGED domains
                 ELSE domains' = {domainPage} \cup RequestedDomains /\ UNCHANGED conn
    /\ pc' = "done"
    /\ UNCHANGED <<op, ctxDone, crashed, chromeVars, chromeIdleVars>>

ChromeNext ==
    \/ NewLocalContext
    \/ ConnectToRemoteChrome
    \/ PrepareConn

ChromeSpec == ChromeInit /\ [][ChromeNext]_vars

----------------------------------------------------------------------------
(* internal/chrome: a waiter of PageLoadWaiterFunc on its own, with any    *)
(* strict flag and timeout, on a target that emits the events of a load.   *)

\* the events of a load the target may hand to its listeners
TargetEvents == {"Page.loadEventFired", "Network.loadingFinished", "Network.loadingFailed"}

\* how many events the target emits
MaxEvents == 3

\* the events handed to the listeners so far
Emitted == SelectSeq(ops, LAMBDA o : o \in TargetEvents)

waiterIdleVars ==
    <<entries, requests, listening, intercepted, pending, continued, loading, target, page,
      landingURL, postLoginURL>>

WaiterInit ==
    /\ op = "Login" /\ cnf = Nil /\ pc = "submit_wait"
    /\ \E strict \in BOOLEAN, timeout \in {0, SubmitTimeout} :
          waiters = <<PageLoadWaiterFunc(strict, timeout)>>
    /\ ctxDone = FALSE /\ conn = "open" /\ domains = {domainPage}
    /\ deferred = TRUE /\ teardowns = 0 /\ entries = <<>> /\ requests = <<>> /\ listening = FALSE
    /\ intercepted = 0 /\ pending = {} /\ continued = {} /\ loading = TRUE
    /\ target = <<>> /\ page = BlankPage /\ timer = "off"
    /\ waitErr = Nil /\ woken = "" /\ landingURL = <<>> /\ postLoginURL = <<>>
    /\ ops = <<>> /\ ret = Nil /\ crashed = FALSE /\ got = Nil /\ want = Nil /\ args = <<>> /\ calls = <<>>
    /\ status = 0 /\ request = Nil /\ sent = Nil
    /\ remoteURL = <<>> /\ chromeConfig = Nil /\ browserProduct = <<>> /\ debuggerURL = <<>>

\* the target hands an event to the listeners
TargetEvent ==
    /\ pc \in {"submit_wait", "submit_select"} /\ ~ctxDone
    /\ Len(Emitted) < MaxEvents
    /\ \E ev \in TargetEvents :
          /\ ops' = Append(ops, ev)
          /\ waiters' = [i \in DOMAIN waiters |-> OnEvent(waiters[i], ev)]
    /\ woken' = IF waiters'[Len(waiters')].ch > 0 THEN Wake("load") ELSE woken
    /\ UNCHANGED <<inputVars, pc, ctxDone, sessionVars, timer, waitErr, ret, crashed,
                   waiterIdleVars>>

WaiterNext ==
    \/ TargetEvent
    \/ WaitInvoke
    \/ WaitPark
    \/ TimerFires
    \/ WaitSelect
    \/ Cancel

WaiterSpec == WaiterInit /\ [][WaiterNext]_vars

----------------------------------------------------------------------------
(* internal/chrome: the listener of NewNavHistory on its own, on a session *)
(* whose browser hands it requests without waiting for the continuation of *)
(* the ones before (documents of frames are intercepted side by side).     *)

\* the requests of this part: a fragment may carry a percent-escape
HistoryRequests ==
    Requests \cup
      { Request(<<"http://rp", "/cb">>,
                <<"#", "access_token", "=", "A", "%25d", "&", "id_token", "=", "B">>, TRUE) }

historyIdleVars ==
    <<pc, sessionVars, listening, browserVars, waiters, timer, waitErr, urlVars, ops, ret>>

HistoryInit ==
    /\ op = "Login" /\ cnf = Nil /\ pc = "navigate_wait"
    /\ ctxDone = FALSE /\ conn = "open" /\ domains = {domainPage, DomainNetwork, DomainRuntime}
    /\ deferred = TRUE /\ teardowns = 0 /\ entries = <<>> /\ requests = <<>>
    /\ listening = TRUE
    /\ intercepted = 0 /\ pending = {} /\ continued = {} /\ loading = TRUE
    /\ target = <<>> /\ page = BlankPage /\ waiters = <<>> /\ timer = "off"
    /\ waitErr = Nil /\ woken = "" /\ landingURL = <<>> /\ postLoginURL = <<>>
    /\ ops = <<>> /\ ret = Nil /\ crashed = FALSE /\ got = Nil /\ want = Nil /\ args = <<>> /\ calls = <<>>
    /\ status = 0 /\ request = Nil /\ sent = Nil
    /\ remoteURL = <<>> /\ chromeConfig = Nil /\ browserProduct = <<>> /\ debuggerURL = <<>>

\* the browser hands an intercepted request to the listener
DeliverRequest ==
    /\ ~crashed /\ listening /\ conn = "open" /\ ~ctxDone
    /\ intercepted < MaxIntercepts
    /\ \E v \in HistoryRequests : Listener(v)
    /\ UNCHANGED <<inputVars, ctxDone, continued, woken, historyIdleVars>>

HistoryNext ==
    \/ DeliverRequest
    \/ ContinueInterceptedRequest
    \/ Cancel

HistorySpec == HistoryInit /\ [][HistoryNext]_vars

----------------------------------------------------------------------------
(* The errors package on its own: a caller builds chains of errors with    *)
(* New and Wrap and compares them.                                         *)

\* the longest chain of taxonomy errors a caller builds
MaxChain == 3

\* the Kinds and the messages the caller gives its errors
ErrKinds == {KindOther, KindTimeout, KindOIDCError}
ErrMsgs == {<<"a">>, <<"b">>}

\* the number of taxonomy errors of the chain
RECURSIVE ChainLen(_)
ChainLen(e) == IF IsError(e) THEN 1 + ChainLen(e.cause) ELSE 0

\* the errors a caller compares with
Wants ==
    {Nil, ContextCanceled}
      \cup {New(<<KindArg(k), StrArg(<<"x">>)>>) : k \in ErrKinds}
      \cup {Wrap(New(<<KindArg(k), StrArg(<<"x">>)>>), <<"y">>, <<>>) : k \in ErrKinds}

\* everything but the errors under study
callVars ==
    <<op, cnf, pc, ctxDone, conn, domains, deferred, teardowns, entries, requests, listening,
      intercepted, pending, continued, loading, target, page, waiters, timer, waitErr,
      woken, landingURL, postLoginURL, ops, ret, crashed, status, request, sent,
      chromeVars, calls>>

\* no call is in progress; the caller starts from a library's error, or none
ErrInit ==
    /\ op = "Logout" /\ cnf = [Endpoint |-> <<>>, IDToken |-> <<>>]
    /\ pc = "done" /\ ctxDone = FALSE /\ conn = "none" /\ domains = {}
    /\ deferred = FALSE /\ teardowns = 0 /\ entries = <<>> /\ requests = <<>> /\ listening = FALSE
    /\ intercepted = 0 /\ pending = {} /\ continued = {} /\ loading = FALSE
    /\ target = <<>> /\ page = BlankPage /\ waiters = <<>> /\ timer = "off"
    /\ waitErr = Nil /\ woken = "" /\ landingURL = <<>> /\ postLoginURL = <<>>
    /\ ops = <<>> /\ ret = Nil /\ crashed = FALSE /\ status = 0
    /\ request = Nil /\ sent = Nil
    /\ remoteURL = <<>> /\ chromeConfig = Nil /\ browserProduct = <<>> /\ debuggerURL = <<>>
    /\ got \in {Nil, ContextCanceled, TransportError}
    /\ want = Nil
    /\ args = <<>> /\ calls = <<>>

\* errors.New(kind, msg) and errors.New(kind, err, msg)
ErrNew ==
    /\ \E k \in ErrKinds, m \in ErrMsgs, withCause \in BOOLEAN :
          /\ withCause => (got # Nil /\ ChainLen(got) < MaxChain)
          /\ args' = IF withCause THEN <<KindArg(k), ErrArg(got), StrArg(m)>>
                     ELSE <<KindArg(k), StrArg(m)>>
    /\ got' = New(args')
    /\ UNCHANGED <<callVars, want>>

\* how many arguments a call of errors.New gets
MaxArgs == 3

\* an argument of New that is no Kind, no error and no string
OtherArg(v) == [t |-> "other", v |-> v]

\* the arguments a caller may give errors.New
ArgChoices ==
    { KindArg(KindTimeout), KindArg(KindOIDCError),
      StrArg(<<"a">>), StrArg(<<"m ", "%s">>),
      ErrArg(ContextCanceled), ErrArg(TransportError),
      OtherArg(<<"7">>) }

\* errors.New with any arguments in any order
ErrNewArgs ==
    /\ \/ args' = <<>>
       \/ /\ Len(args) < MaxArgs
          /\ \A i \in 1..Len(args) : args[i] \in ArgChoices
          /\ \E a \in ArgChoices : args' = Append(args, a)
    /\ got' = New(args')
    /\ UNCHANGED <<callVars, want>>

\* errors.Wrap(err, msg)
ErrWrap ==
    /\ got # Nil /\ ChainLen(got) < MaxChain
    /\ \E m \in ErrMsgs :
          /\ got' = Wrap(got, m, <<>>)
          /\ args' = <<ErrArg(got), StrArg(m)>>
    /\ UNCHANGED <<callVars, want>>

\* the caller picks the error to compare with
ErrWant ==
    /\ want' \in Wants \ {want}
    /\ UNCHANGED <<callVars, got, args>>

ErrNext ==
    \/ ErrNew
    \/ ErrWrap
    \/ ErrWant

ErrSpec == ErrInit /\ [][ErrNext]_vars

\* errors.New on its own, called with any arguments
NewArgsSpec == ErrInit /\ [][ErrNewArgs]_vars

----------------------------------------------------------------------------
(* Properties.                                                             *)

\* the call has returned
Done == pc = "done"
\* the call has returned an *Error of the kind
ReturnedKind(kind) == Done /\ IsError(ret.err) /\ ret.err.Kind = kind
\* the latest operation the call performed
LastOp == IF ops = <<>> THEN "" ELSE ops[Len(ops)]
\* the operation was performed
Performed(o) == \E i \in 1..Len(ops) : ops[i] = o
\* how many times the operation was performed
Count(o) == Cardinality({i \in 1..Len(ops) : ops[i] = o})

\* the Kind the claim expects of a LoginConfig with a missing mandatory field
FirstMissedKind(c) ==
    IF c.Endpoint = <<>> THEN KindEndpointMissed
    ELSE IF c.ClientID = <<>> THEN KindClientIDMissed
    ELSE IF c.RedirectURI = <<>> THEN KindRedirectURIMissed
    ELSE IF c.Scopes = <<>> THEN KindScopesMissed
    ELSE IF c.Username = <<>> THEN KindUsernameMissed
    ELSE IF c.UsernameField = <<>> THEN KindUsernameFieldMissed
    ELSE IF c.PasswordField = <<>> THEN KindPasswordFieldMissed
    ELSE IF c.SubmitButton = <<>> THEN KindSubmitButtonMissed
    ELSE IF c.ErrorMessage = <<>> THEN KindErrorMessageMissed
    ELSE "none"

MissedKinds ==
    {KindEndpointMissed, KindClientIDMissed, KindRedirectURIMissed, KindScopesMissed,
     KindIDTokenMissed, KindUsernameMissed, KindUsernameFieldMissed,
     KindPasswordFieldMissed, KindSubmitButtonMissed, KindErrorMessageMissed}

ValidationKinds == MissedKinds \cup {KindEndpointInvalid}

\* C1: a Login whose config misses a mandatory field returns the Kind of the
\* first missing field in the order Endpoint, ClientID, RedirectURI, Scopes,
\* Username, UsernameField, PasswordField, SubmitButton, ErrorMessage,
\* whatever the later fields are, and no data; a config that has the nine
\* fields never returns a *-missed Kind, with or without a password.
C1_FirstMissedFieldWins ==
    (op = "Login" /\ Done) =>
        IF FirstMissedKind(cnf) # "none"
        THEN ReturnedKind(FirstMissedKind(cnf)) /\ ret.data = Nil
        ELSE ~(IsError(ret.err) /\ ret.err.Kind \in MissedKinds)

\* C1 witness: two fields are missing, the later ones too, and the first wins
C1_Witness ==
    /\ op = "Login" /\ Done
    /\ cnf.Endpoint # <<>> /\ cnf.ClientID # <<>>
    /\ cnf.RedirectURI = <<>> /\ cnf.Username = <<>> /\ cnf.ErrorMessage = <<>>
    /\ ReturnedKind(KindRedirectURIMissed)

\* C2: a call that ends with a validation Kind has opened no connection,
\* created no navigation history and issued no navigation.
C2_ValidationOpensNoSession ==
    (Done /\ IsError(ret.err) /\ ret.err.Kind \in ValidationKinds) =>
        /\ conn = "none" /\ ~deferred /\ domains = {}
        /\ ~listening /\ entries = <<>> /\ intercepted = 0
        /\ waiters = <<>> /\ target = <<>> /\ ~loading
        /\ ops = <<"validate">>

\* C2 witness: a Logout without ID token has returned its Kind
C2_Witness ==
    /\ op = "Logout" /\ cnf.Endpoint # <<>> /\ cnf.IDToken = <<>>
    /\ ReturnedKind(KindIDTokenMissed)

\* C3: once Connect has succeeded the call runs the teardown exactly once,
\* before it returns, on every exit path: not before the return, and once
\* when it has returned.
C3_TeardownExactlyOnce ==
    /\ ~Done => (teardowns = 0 /\ (deferred => conn = "open"))
    /\ (Done /\ deferred) => (teardowns = 1 /\ conn = "cancelled")
    /\ (Done /\ ~deferred) => teardowns = 0

\* C3 witness: the call was cancelled during the wait after the submit and
\* has returned through the teardown
C3_Witness ==
    /\ op = "Login" /\ Done /\ deferred /\ teardowns = 1
    /\ Performed("Click") /\ LastOp = "wait"
    /\ Cause(ret.err) = ContextCanceled

\* the value of a query parameter of the URL, empty when it has none
QueryParam(u, key) == Get(Query(urlParse(u)), key)
\* the fragment of the URL
Fragment(u) == urlParse(u).Fragment
\* the value of a parameter carried in the fragment of the URL
FragmentParam(u, key) == Get(ParseQuery(Fragment(u)).values, key)
\* the fragment of the URL carries a non-empty access token and a non-empty ID token
HasTokenPair(u) ==
    FragmentParam(u, "access_token") # <<>> /\ FragmentParam(u, "id_token") # <<>>

\* C4: Login returns either data and no error, or an error and no data; it
\* returns data only from the token extraction of step 7, only when the
\* fragment of the post-login URL has both tokens non-empty, and the data
\* are those two values; a non-empty fragment that lacks a token gives an
\* error and no data.
C4_DataOnlyFromTokenPair ==
    (op = "Login" /\ Done) =>
        /\ (ret.data = Nil) # (ret.err = Nil)
        /\ ret.data # Nil =>
              /\ LastOp = "extractOIDCTokens"
              /\ HasTokenPair(postLoginURL)
              /\ ret.data = LoginData(FragmentParam(postLoginURL, "access_token"),
                                      FragmentParam(postLoginURL, "id_token"))
        /\ (Performed("extractOIDCTokens") /\ Fragment(postLoginURL) # <<>>
              /\ ~HasTokenPair(postLoginURL)) =>
              (ret.data = Nil /\ ret.err # Nil)

\* C4 witness: Login has returned the token pair of the fragment
C4_Witness ==
    /\ op = "Login" /\ Done
    /\ ret = [data |-> LoginData(<<"A">>, <<"B">>), err |-> Nil]
    /\ Fragment(postLoginURL) = <<"access_token", "=", "A", "&", "id_token", "=", "B">>

\* C5: when the post-login URL carries the token pair in its fragment, Login
\* returns exactly that pair and does nothing after the token extraction:
\* no OIDC-error extraction of that URL, no reading of the error message's
\* text and no reading of the page's markup, whatever error parameter the
\* URL has and whatever error message the page shows.
C5_TokenPairEndsLogin ==
    (op = "Login" /\ Performed("extractOIDCTokens") /\ HasTokenPair(postLoginURL)) =>
        /\ Done
        /\ ret = [data |-> LoginData(FragmentParam(postLoginURL, "access_token"),
                                     FragmentParam(postLoginURL, "id_token")),
                  err |-> Nil]
        /\ LastOp = "extractOIDCTokens"
        /\ Count("extractOIDCError") = 1 /\ Count("OuterHTML") = 1 /\ ~Performed("Text")

\* C5 witness: the URL has an error parameter too and the page shows an
\* error message, and Login has returned the tokens
C5_Witness ==
    /\ op = "Login" /\ Done /\ LastOp = "extractOIDCTokens"
    /\ QueryParam(postLoginURL, "error") # <<>>
    /\ page.error /\ page.errText # <<>>
    /\ ret.data = LoginData(<<"A">>, <<"B">>)

\* Login has returned after the step-7 classification of a URL that yields
\* no token pair and carries an error parameter
NoTokensButError ==
    /\ op = "Login" /\ Done /\ Performed("extractOIDCTokens")
    /\ ~HasTokenPair(postLoginURL)
    /\ QueryParam(postLoginURL, "error") # <<>>

\* C6 as claimed: at step 7 every URL without a token pair and with a
\* non-empty error parameter ends Login with the OIDC-error Kind, fragment
\* or not.
C6_OIDCErrorWheneverNoTokens == NoTokensButError => ReturnedKind(KindOIDCError)

\* C6 amended: at step 7 a URL with an empty fragment and a non-empty error
\* parameter ends Login with the OIDC-error Kind; a URL whose non-empty
\* fragment lacks a token ends Login with a default-Kind error that wraps
\* the failure of the token extraction, error parameter or not.
C6_OIDCErrorWhenNoFragment ==
    /\ NoTokensButError =>
          IF Fragment(postLoginURL) = <<>>
          THEN ReturnedKind(KindOIDCError) /\ LastOp = "extractOIDCError"
          ELSE ReturnedKind(KindOther) /\ LastOp = "extractOIDCTokens"
    /\ (op = "Login" /\ Performed("extractOIDCTokens") /\ ~HasTokenPair(postLoginURL)
          /\ Fragment(postLoginURL) # <<>>) =>
          /\ ReturnedKind(KindOther) /\ LastOp = "extractOIDCTokens"
          /\ IsError(ret.err.cause) /\ ret.err.cause.Kind = KindOther

\* C6 witness: after the submit the provider has redirected to its error
\* page and Login has returned the OIDC-error Kind
C6_Witness ==
    /\ NoTokensButError /\ Fragment(postLoginURL) = <<>>
    /\ Performed("Click")
    /\ ReturnedKind(KindOIDCError)

\* C7: when the URL read after the step-3 navigation carries a non-empty
\* error parameter Login ends there with the OIDC-error Kind: it has probed
\* no element, typed nothing, clicked nothing and waited for no submit.
C7_LandingErrorEndsLogin ==
    (op = "Login" /\ Performed("extractOIDCError") /\ QueryParam(landingURL, "error") # <<>>) =>
        /\ ReturnedKind(KindOIDCError)
        /\ ops = <<"validate", "connect", "history", "navigate", "wait", "extractOIDCError">>

\* C7 witness: the authorization endpoint has redirected to the error page
C7_Witness ==
    /\ op = "Login" /\ Len(entries) = 2 /\ landingURL = entries[2]
    /\ QueryParam(landingURL, "error") = <<"e">>
    /\ ReturnedKind(KindOIDCError) /\ LastOp = "extractOIDCError"

\* the message the claim expects of the OIDC error of a URL
ExpectedOIDCMessage(u) ==
    IF QueryParam(u, "error_hint") = <<>>
    THEN QueryParam(u, "error_description")
    ELSE QueryParam(u, "error_description") \o <<": ">> \o QueryParam(u, "error_hint")

\* the URL the latest extractOIDCError was applied to
ClassifiedURL == IF Performed("extractOIDCTokens") THEN postLoginURL ELSE landingURL

\* C8 as claimed: extractOIDCError returns no error iff the error parameter
\* is empty; otherwise an OIDC-error-Kind error whose message is exactly the
\* error_description, followed by ": " and the error_hint when there is one.
C8_OIDCErrorMessage ==
    LastOp = "extractOIDCError" =>
        IF QueryParam(ClassifiedURL, "error") = <<>>
        THEN Done => ret.err = Nil
        ELSE /\ ReturnedKind(KindOIDCError)
             /\ ret.err.cause = Nil
             /\ ret.err.msg = ExpectedOIDCMessage(ClassifiedURL)

\* the operations of Login on the login form
FormOps ==
    SelectSeq(ops, LAMBDA o : o \in {"HasElement username", "HasElement password",
                                     "HasElement submit", "SendKeys username",
                                     "SendKeys password", "Click"})

IsPrefix(s, t) == Len(s) <= Len(t) /\ s = SubSeq(t, 1, Len(s))

\* the probe answered and the call returned on it with the Kind, or the probe
\* itself failed
EndedOnProbe(probed, kind) ==
    /\ Done /\ FormOps = probed
    /\ ReturnedKind(kind) \/ Cause(ret.err) # Nil

\* C9: Login probes the username field, the password field and the submit
\* button in that order; the first absent one ends Login with its own Kind,
\* and no key is typed and nothing is clicked before the three probes have
\* found their elements.
C9_ProbesInOrder ==
    op = "Login" =>
        /\ \/ IsPrefix(FormOps, <<"HasElement username", "HasElement password",
                                  "HasElement submit", "SendKeys username",
                                  "SendKeys password", "Click">>)
           \/ IsPrefix(FormOps, <<"HasElement username", "HasElement password",
                                  "HasElement submit", "SendKeys username", "Click">>)
        /\ (Performed("HasElement username") /\ ~Performed("Click") /\ ~page.user) =>
              EndedOnProbe(<<"HasElement username">>, KindUsernameFieldInvalid)
        /\ (Performed("HasElement password") /\ ~Performed("Click") /\ ~page.pass) =>
              EndedOnProbe(<<"HasElement username", "HasElement password">>,
                           KindPasswordFieldInvalid)
        /\ (Performed("HasElement submit") /\ ~Performed("Click") /\ ~page.submit) =>
              EndedOnProbe(<<"HasElement username", "HasElement password",
                             "HasElement submit">>, KindSubmitButtonInvalid)

\* C9 witness: the page has the username field and no password field
C9_Witness ==
    /\ op = "Login" /\ page.user /\ ~page.pass
    /\ FormOps = <<"HasElement username", "HasElement password">>
    /\ ReturnedKind(KindPasswordFieldInvalid)

\* the fragment of the URL carries neither an access token nor an ID token
NoToken(u) ==
    FragmentParam(u, "access_token") = <<>> /\ FragmentParam(u, "id_token") = <<>>

\* C10 as claimed: at step 7, without tokens and without provider error,
\* Login fails with the login-failure Kind and the trimmed text of the error
\* message as its message, when that text is not empty after trimming; and
\* the text is not read when there are tokens or a provider error.
C10_LoginFailureMessage ==
    /\ (op = "Login" /\ Performed("Text")) =>
          (NoToken(postLoginURL) /\ QueryParam(postLoginURL, "error") = <<>>)
    /\ (op = "Login" /\ Done /\ Performed("extractOIDCTokens")
          /\ NoToken(postLoginURL) /\ QueryParam(postLoginURL, "error") = <<>>
          /\ TrimSpace(page.errText) # <<>> /\ Cause(ret.err) = Nil) =>
          /\ ReturnedKind(KindLoginError) /\ LastOp = "Text"
          /\ ret.err.msg = TrimSpace(page.errText)

\* the sequence occurs in the other one as a contiguous part
ContainsSeq(s, part) ==
    \E i \in 0..(Len(s) - Len(part)) : SubSeq(s, i + 1, i + Len(part)) = part

\* C11 as claimed: at step 7, without tokens, without provider error and
\* without an error-message text that is non-empty after trimming, Login
\* fails with the login-failure Kind and a message that contains the markup
\* of the page; the message is never empty and no data is returned.
C11_CatchAllCarriesMarkup ==
    (op = "Login" /\ Done /\ Performed("extractOIDCTokens")
       /\ NoToken(postLoginURL) /\ QueryParam(postLoginURL, "error") = <<>>
       /\ TrimSpace(page.errText) = <<>> /\ Cause(ret.err) = Nil) =>
        /\ ReturnedKind(KindLoginError) /\ ret.data = Nil
        /\ ret.err.msg # <<>>
        /\ ContainsSeq(ret.err.msg, page.html)

\* the call has returned from its validation, with the Kind, before anything else
RejectedWith(kind) ==
    /\ ReturnedKind(kind)
    /\ ops = <<"validate">> /\ conn = "none" /\ ~listening /\ target = <<>>

\* C12: Logout validates before it connects or navigates: an empty endpoint
\* gives endpoint-missed, with or without an ID token; an endpoint that does
\* not parse gives endpoint-invalid; an empty ID token with a valid endpoint
\* gives id-token-missed; the two missing fields have different Kinds.
C12_LogoutValidation ==
    /\ KindEndpointMissed # KindIDTokenMissed
    /\ (op = "Logout" /\ pc # "validate") =>
          IF cnf.Endpoint = <<>> THEN RejectedWith(KindEndpointMissed)
          ELSE IF HasBadEscape(cnf.Endpoint) THEN RejectedWith(KindEndpointInvalid)
          ELSE IF cnf.IDToken = <<>> THEN RejectedWith(KindIDTokenMissed)
          ELSE ~(Done /\ IsError(ret.err) /\ ret.err.Kind \in ValidationKinds)

\* C12 witness: Logout without endpoint and without ID token
C12_Witness ==
    /\ op = "Logout" /\ cnf.Endpoint = <<>> /\ cnf.IDToken = <<>>
    /\ RejectedWith(KindEndpointMissed)

\* C13: once Logout's navigation and wait have succeeded, Logout returns no
\* error when the last recorded navigation URL has no non-empty error
\* parameter and an OIDC-error-Kind error otherwise; nothing else can fail
\* after validation, connect, history initialisation and navigation.
C13_LogoutResult ==
    (op = "Logout" /\ Performed("extractOIDCError")) =>
        /\ Done /\ landingURL = Last(entries)
        /\ ops = <<"validate", "connect", "history", "navigate", "wait", "extractOIDCError">>
        /\ IF QueryParam(landingURL, "error") = <<>>
           THEN ret.err = Nil
           ELSE ReturnedKind(KindOIDCError)

\* C13 witness: the provider has redirected the logout to a page without error
C13_Witness ==
    /\ op = "Logout" /\ Done /\ LastOp = "extractOIDCError"
    /\ Len(entries) = 2 /\ QueryParam(landingURL, "error") = <<>>
    /\ ret.err = Nil /\ teardowns = 1

\* the query of the URL has exactly these parameters (a function from key to value)
HasExactlyParams(u, params) ==
    /\ Len(Query(urlParse(u))) = Cardinality(DOMAIN params)
    /\ \A k \in DOMAIN params : QueryParam(u, k) = params[k]

\* the URL is the endpoint followed by the path, with a query and no fragment
IsEndpointPath(u, endpoint, path) ==
    /\ urlParse(u).err = Nil
    /\ urlParse(u).Host \o urlParse(u).Path = endpoint \o path
    /\ Fragment(u) = <<>>

\* C14 as claimed: the URL Login navigates to is the configured endpoint,
\* with the path it has, followed by /oauth2/auth, with exactly the six
\* parameters client_id, response_type, scope, redirect_uri, state, nonce.
C14_LoginURL ==
    (op = "Login" /\ target # <<>>) =>
        /\ IsEndpointPath(target, cnf.Endpoint, <<"/oauth2/auth">>)
        /\ HasExactlyParams(target,
              [client_id |-> cnf.ClientID, response_type |-> <<"id_token", " ", "token">>,
               scope |-> cnf.Scopes, redirect_uri |-> cnf.RedirectURI,
               state |-> <<"12345678">>, nonce |-> <<"87654321">>])

\* C15 as claimed: the URL Logout navigates to is the configured endpoint
\* followed by /oauth2/sessions/logout, with exactly the two parameters
\* id_token_hint and state.
C15_LogoutURL ==
    (op = "Logout" /\ target # <<>>) =>
        /\ IsEndpointPath(target, cnf.Endpoint, <<"/oauth2/sessions/logout">>)
        /\ HasExactlyParams(target,
              [id_token_hint |-> cnf.IDToken, state |-> <<"12345678">>])

\* no taxonomy error of the chain has the Timeout Kind
RECURSIVE NoTimeoutInChain(_)
NoTimeoutInChain(e) ==
    IsError(e) => (e.Kind # KindTimeout /\ NoTimeoutInChain(e.cause))

\* C16: when the caller's context is cancelled while Login or Logout is
\* blocked in a page-load wait, the wait returns the cancellation error, the
\* call returns an error whose Cause is the cancellation error and whose
\* chain has no Timeout Kind, and the teardown has run when the call returns.
C16_CancelledWait ==
    woken = "done" =>
        /\ ctxDone
        /\ ~Done => pc \in {"navigate_select", "submit_select"}
        /\ Done =>
              /\ LastOp = "wait" /\ waitErr = ContextCanceled
              /\ IsError(ret.err) /\ ret.data = Nil
              /\ Cause(ret.err) = ContextCanceled
              /\ NoTimeoutInChain(ret.err)
              /\ teardowns = 1 /\ conn = "cancelled"

\* C16 witness: Login was cancelled while it waited for the submit, with
\* the timer of the wait still running at that moment, and has returned
C16_Witness ==
    /\ op = "Login" /\ Done /\ woken = "done" /\ Performed("Click")
    /\ Cause(ret.err) = ContextCanceled /\ teardowns = 1

\* the wait function of the call is inside its select
InSelect == pc \in {"navigate_select", "submit_select"}

\* C17: an invocation of a wait function returns nil only after a page-load
\* event was delivered to the listener of its waiter, the Timeout-Kind error
\* only after its timeout has elapsed (so never with a timeout of 0), and
\* the context's error only after the cancellation; it returns nothing else.
C17_WaitReturnsOneOfThree ==
    [][(InSelect /\ ~InSelect') =>
          LET w == waiters[Len(waiters)]
          IN  \/ /\ waitErr' = Nil
                 /\ w.stoped /\ w.ch > 0
              \/ /\ waitErr' = New(<<KindArg(KindTimeout), StrArg(<<"timeout">>)>>)
                 /\ w.timeout > 0 /\ timer = "fired"
              \/ /\ waitErr' = ContextCanceled
                 /\ ctxDone \/ conn # "open"]_vars

\* C17 witness: the wait after the submit has returned the Timeout-Kind error
C17_Witness ==
    /\ Done /\ LastOp = "wait" /\ Performed("Click")
    /\ IsError(waitErr) /\ waitErr.Kind = KindTimeout
    /\ waiters[Len(waiters)].timeout = SubmitTimeout /\ ~waiters[Len(waiters)].stoped

\* C18: Match(got, want) is true exactly when both are taxonomy errors of
\* the same Kind, whatever their messages and causes; it is symmetric; an
\* error made by Wrap matches the default Kind and no other Kind.
C18_MatchComparesKinds ==
    /\ Match(got, want) = (IsError(got) /\ IsError(want) /\ got.Kind = want.Kind)
    /\ Match(got, want) = Match(want, got)
    /\ IsError(got) =>
          \A m \in ErrMsgs, c \in {Nil, ContextCanceled, want} :
              Match([got EXCEPT !.msg = m, !.cause = c], want) = Match(got, want)
    /\ got # Nil =>
          \A m \in ErrMsgs, k \in ErrKinds :
              Match(Wrap(got, m, <<>>), New(<<KindArg(k), StrArg(<<"x">>)>>))
                = (k = KindOther)

\* C18 witness: a Timeout-Kind error wrapped twice is compared with a
\* Timeout-Kind error, and does not match it
C18_Witness ==
    /\ ChainLen(got) = 3 /\ got.Kind = KindOther /\ got.cause.Kind = KindOther
    /\ got.cause.cause.Kind = KindTimeout
    /\ want = New(<<KindArg(KindTimeout), StrArg(<<"x">>)>>)
    /\ ~Match(got, want)

\* the cause of the cause ... of the error, i levels down
RECURSIVE CauseAt(_, _)
CauseAt(e, i) == IF i = 0 THEN e ELSE CauseAt(e.cause, i - 1)

\* C19: Cause of a chain built with New and Wrap is what lies under the
\* innermost taxonomy error of the chain: the non-taxonomy error the chain
\* was built on, or nil when the innermost taxonomy error has no cause;
\* Cause of a non-taxonomy error is that error.
C19_CauseIsInnermost ==
    /\ ~IsError(Cause(got))
    /\ Cause(got) = CauseAt(got, ChainLen(got))
    /\ ~IsError(got) => Cause(got) = got
    /\ (IsError(got) /\ CauseAt(got, ChainLen(got) - 1).cause = Nil) => Cause(got) = Nil
    /\ Cause(New(<<KindArg(KindTimeout), StrArg(<<"timeout">>)>>)) = Nil
    /\ got # Nil => \A m \in ErrMsgs : Cause(Wrap(got, m, <<>>)) = Cause(got)

\* C19 witness: a chain of three taxonomy errors built on the cancellation error
C19_Witness ==
    /\ ChainLen(got) = 3 /\ Cause(got) = ContextCanceled
    /\ got.Kind = KindOIDCError /\ got.cause.Kind = KindOther

\* C20 as claimed: the handlers answer 400 for every validation Kind Login
\* or Logout returns (the *-missed Kinds, id-token-missed included, and
\* endpoint-invalid), 500 for every other error and 200 for no error.
C20_ValidationIsBadRequest ==
    status # 0 =>
        IF ret.err = Nil THEN status = StatusOK
        ELSE IF IsError(ret.err) /\ ret.err.Kind \in ValidationKinds
        THEN status = StatusBadRequest
        ELSE status = StatusInternalServerError

\* the value the handler must give a field of the login config
ExpectedLoginField(f) ==
    IF request.kind = "json" /\ LoginTags[f] \in request.names
    THEN BodyValue(request, LoginTags[f])
    ELSE IF f \in DefaultFields THEN request.defaults[f] ELSE <<>>

\* C21: the login handler calls the login function with a config whose
\* RedirectURI, Scopes, UsernameField, PasswordField, SubmitButton and
\* ErrorMessage are the body's values where the body has them and the
\* server's defaults elsewhere, and whose Endpoint, ClientID, Username and
\* Password are the body's values, empty where the body has none; on success
\* it answers 200 with the tokens the login function returned.
C21_LoginHandlerConfig ==
    /\ (op = "Login" /\ pc \in {"call", "done"}) =>
          /\ DOMAIN cnf = DOMAIN LoginTags
          /\ \A f \in DOMAIN LoginTags : cnf[f] = ExpectedLoginField(f)
    /\ (op = "Login" /\ pc = "done" /\ status # 0 /\ ret.err = Nil) =>
          (status = StatusOK /\ sent = ret.data)

\* C21 witness: the body sets the scopes and not the redirect URI, and the
\* handler has answered with the tokens
C21_Witness ==
    /\ op = "Login" /\ request.kind = "json"
    /\ "scopes" \in request.names /\ "redirectUri" \notin request.names
    /\ "endpoint" \in request.names /\ "password" \notin request.names
    /\ pc = "done" /\ status = StatusOK /\ sent = LoginData(<<"A">>, <<"B">>)
    /\ cnf.Scopes = <<"body", "scopes">> /\ cnf.RedirectURI = <<"default", "RedirectURI">>
    /\ cnf.Password = <<>>

\* ConnectWithContext has returned a context and a cancel function
HandleReturned == pc = "done" /\ ret.err = Nil /\ conn = "open"

\* the product string is name/version and the integer before the first '.'
\* of the version is at least 70
SupportedProduct(p) ==
    \E i \in 2..(Len(p) - 1) :
        /\ p[i] = "/"
        /\ \A j \in (i + 1)..Len(p) : p[j] # "/"
        /\ p[i + 1] \in {"70", "71"}
        /\ (i + 1 < Len(p) => p[i + 2] = ".")

\* C22: ConnectWithContext returns a handle only if the product string is
\* name/version with a major version of at least 70; for a major version
\* below 70 or one that cannot be parsed it returns an error, no handle,
\* and activates no domain.
C22_VersionGate ==
    /\ HandleReturned => SupportedProduct(browserProduct)
    /\ (pc = "done" /\ ~SupportedProduct(browserProduct)) =>
          (ret.err # Nil /\ conn # "open")
    /\ ~SupportedProduct(browserProduct) => domains = {}

\* C22 witness: the version query succeeded and the call was refused for
\* version 69
C22_Witness ==
    /\ pc = "done" /\ IsError(ret.err) /\ ret.err.cause = Nil
    /\ browserProduct = <<"Chrome", "/", "69", ".", "0">>
    /\ conn = "cancelled" /\ domains = {}

\* the answer of /json is a 200 with a non-empty array of targets that each
\* carry a webSocketDebuggerUrl string
WellFormedConfig(c) ==
    /\ c.status = StatusOK
    /\ c.body.kind = "array"
    /\ c.body.elems # <<>>
    /\ \A i \in 1..Len(c.body.elems) :
          c.body.elems[i].kind = "object" /\ c.body.elems[i].url # <<>>

\* C23: with a remote URL, an answer of /json that is not a well-formed,
\* non-empty array of targets with a webSocketDebuggerUrl string makes the
\* connection return an error without attaching and without crashing;
\* otherwise the first element's webSocketDebuggerUrl is the one attached to.
C23_MalformedConfigReported ==
    /\ (remoteURL # <<>> /\ ~WellFormedConfig(chromeConfig)) =>
          /\ ~crashed
          /\ debuggerURL = <<>>
          /\ pc # "connect" => (pc = "done" /\ ret.err # Nil /\ conn = "none")
    /\ (remoteURL # <<>> /\ WellFormedConfig(chromeConfig) /\ pc = "prepare") =>
          debuggerURL = chromeConfig.body.elems[1].url

\* the waiter of the wait in progress
LastWaiter == waiters[Len(waiters)]

\* C24: the listener of the post-submit waiter is registered before the
\* click, so a page-load event that fires after the click and before the
\* wait function is invoked leaves its signal in the waiter; the wait that
\* follows finds it and returns nil instead of blocking until the timeout.
C24_EarlyLoadEventKept ==
    /\ [](pc \in {"submit_wait", "submit_select"} =>
            (LastWaiter.stoped => (LastWaiter.ch = 1 /\ woken # "parked")))
    /\ [][(/\ pc = "submit_select" /\ LastWaiter.ch = 1
           /\ timer # "fired" /\ ~ctxDone /\ pc' # pc)
             => (pc' = "classify" /\ waitErr' = Nil)]_vars

\* C24 witness: the click is done, the wait function is not invoked yet and
\* the page-load event has left its signal
C24_Witness ==
    /\ pc = "submit_wait" /\ LastOp = "Click"
    /\ LastWaiter.stoped /\ LastWaiter.ch = 1 /\ ~loading

\* the post-submit wait of Login has returned an error
SubmitWaitFailed == op = "Login" /\ Len(waiters) = 2 /\ waitErr # Nil

\* C25: when no page-load event is delivered after the click and the scope
\* is not cancelled, the post-submit wait ends only when its timer has
\* fired, and Login returns an error that wraps the Timeout-Kind error;
\* after a timed-out or cancelled post-submit wait Login returns without
\* classifying the outcome and without tokens.
C25_SubmitWaitTimeout ==
    /\ [](SubmitWaitFailed =>
            /\ Done /\ LastOp = "wait" /\ postLoginURL = <<>>
            /\ ret.data = Nil /\ IsError(ret.err) /\ ret.err.cause = waitErr
            /\ \/ IsError(waitErr) /\ waitErr.Kind = KindTimeout /\ waitErr.cause = Nil
               \/ waitErr = ContextCanceled)
    /\ [][(pc = "submit_select" /\ LastWaiter.ch = 0 /\ ~ctxDone /\ pc' # pc)
            => /\ timer = "fired"
               /\ pc' = "done" /\ ret'.data = Nil
               /\ IsError(ret'.err.cause) /\ ret'.err.cause.Kind = KindTimeout]_vars

\* C25 witness: Login has returned after its post-submit wait timed out
\* with no page-load event delivered and no cancellation
C25_Witness ==
    /\ SubmitWaitFailed /\ Done /\ ~ctxDone /\ LastWaiter.ch = 0 /\ ~LastWaiter.stoped
    /\ IsError(ret.err.cause) /\ ret.err.cause.Kind = KindTimeout

\* C26: a waiter gets at most one load signal on its channel however many
\* page-load events follow the first: once the latch is set the listener
\* ignores every later event, and the waiter is never signalled again or
\* re-armed.
C26_OneSignalPerWaiter ==
    /\ [](\A i \in DOMAIN waiters :
            waiters[i].ch <= 1 /\ (waiters[i].ch = 1 => waiters[i].stoped))
    /\ [][\A i \in DOMAIN waiters :
            waiters[i].stoped =>
                /\ i \in DOMAIN waiters'
                /\ waiters'[i].stoped
                /\ waiters'[i].ch <= waiters[i].ch]_vars

\* C26 witness: the waiter of the navigation was signalled once and had its
\* signal taken; a later page-load event, which has signalled the waiter of
\* the submit, has left it as it was
C26_Witness ==
    /\ Len(waiters) = 2
    /\ waiters[1].stoped /\ waiters[1].ch = 0
    /\ waiters[2].stoped /\ waiters[2].ch = 1

\* the wait function has returned
WaitReturned == pc \in {"classify", "done"}

\* C27: a loading-failed event ends the wait as a loading-finished event
\* does: the wait function then returns an error, except in strict mode,
\* where it returns nil.
C27_LoadingFailedEndsWait ==
    /\ (pc = "submit_select" /\ LastOp = "Network.loadingFailed") => woken # "parked"
    /\ (WaitReturned /\ ~ctxDone /\ timer # "fired"
          /\ Emitted # <<>> /\ Emitted[1] = "Network.loadingFailed") =>
          IF waiters[1].strict THEN waitErr = Nil ELSE waitErr # Nil

\* the navigation requests among the intercepted ones, in interception order
NavRequests == SelectSeq(requests, LAMBDA v : v.IsNavigationRequest)

\* the URL a request navigates to: Request.URL and, behind it, the fragment
\* with its '#'
NavURL(v) == v.URL \o v.URLFragment

\* C28: NavHistory is append-only.  Its entries are the URLs recorded for the
\* intercepted navigation requests, one each, in interception order; no step removes,
\* reorders or changes an entry; a request that is not a navigation adds
\* none; Last() is the entry appended last, and empty exactly when no
\* navigation has been intercepted.  (A listener that panics on a request
\* leaves no history to look at: the first part is about a running process.)
C28_HistoryAppendOnly ==
    /\ [](~crashed =>
            /\ Len(entries) = Len(NavRequests)
            /\ \A i \in 1..Len(entries) : entries[i] = HistoryEntry(NavRequests[i])
            /\ (Last(entries) = <<>>) <=> (NavRequests = <<>>))
    /\ [][/\ IsPrefix(entries, entries')
          /\ Len(entries') <= Len(entries) + 1
          /\ (requests' # requests /\ ~requests'[Len(requests')].IsNavigationRequest)
                => entries' = entries
          /\ entries' # entries =>
                (~crashed' /\ Last(entries') = HistoryEntry(requests'[Len(requests')]))]_vars

\* C28 witness: a navigation request and then a request that is no
\* navigation were intercepted, and the history has the first one only
C28_Witness ==
    /\ ~crashed /\ Len(requests) = 2
    /\ requests[1].IsNavigationRequest /\ ~requests[2].IsNavigationRequest
    /\ entries = <<NavURL(requests[1])>> /\ Last(entries) = requests[1].URL
    /\ pending = {1, 2}

\* how many of the first n intercepted requests are navigation requests
NavCount(n) == Len(SelectSeq(SubSeq(requests, 1, n), LAMBDA v : v.IsNavigationRequest))

\* C29: every intercepted request handed to the listener, navigation or
\* not, gets one continuation for its own interception ID; the continuation
\* runs after the history append for that request, and it waits neither for
\* the continuation of another request nor for the main flow.
C29_OneContinuationEach ==
    /\ [](~crashed =>
            /\ intercepted = Len(requests)
            /\ pending \cup continued = 1..intercepted
            /\ pending \cap continued = {}
            /\ \A id \in pending :
                  ENABLED (ContinueInterceptedRequest /\ id \notin pending'))
    /\ [][/\ continued \subseteq continued'
          /\ Cardinality(continued' \ continued) <= 1
          /\ \A id \in continued' \ continued :
                /\ id \in pending /\ id \notin pending'
                /\ id <= Len(requests)
                /\ Len(entries) >= NavCount(id)
                /\ UNCHANGED <<entries, pc>>]_vars

\* C29 witness: two requests were intercepted, one of them no navigation;
\* the second one has been continued while the first one has not
C29_Witness ==
    /\ ~crashed /\ intercepted = 2 /\ pending = {1} /\ continued = {2}
    /\ requests[1].IsNavigationRequest /\ ~requests[2].IsNavigationRequest

\* the value a request's fragment carries for a key
Carried(v, key) == Get(ParseQuery(Tail(v.URLFragment)).values, key)

\* C30: the history entry of a navigation request with a fragment is the
\* request's URL, one '#' and the fragment's text; the entry of a request
\* without fragment has no '#'; extractOIDCTokens applied to the entry
\* gives the access_token and the id_token the fragment carries.
C30_EntryKeepsFragment ==
    \A i \in 1..Len(entries) :
        LET v == NavRequests[i]
            e == entries[i]
        IN  /\ v.URLFragment # <<>> => e = v.URL \o <<"#">> \o Tail(v.URLFragment)
            /\ v.URLFragment = <<>> => IndexOf(e, "#") = 0
            /\ (v.URLFragment # <<>> /\ Carried(v, "access_token") # <<>>
                  /\ Carried(v, "id_token") # <<>>) =>
                  extractOIDCTokens(e) =
                      [data |-> LoginData(Carried(v, "access_token"), Carried(v, "id_token")),
                       err |-> Nil]

\* the operations on the form of a Login that reaches the click
FormOpsToClick ==
    <<"HasElement username", "HasElement password", "HasElement submit",
      "SendKeys username">>
      \o (IF cnf.Password # <<>> THEN <<"SendKeys password">> ELSE <<>>)
      \o <<"Click">>

\* C31: in a Login that reaches the click, the username was typed exactly
\* once before the click, the password was typed, after the username and
\* before the click, exactly when the configured password is not empty, and
\* the three probes had succeeded before any key was typed.
C31_KeystrokesBeforeClick ==
    Performed("Click") =>
        /\ FormOps = FormOpsToClick
        /\ Count("SendKeys username") = 1
        /\ Count("SendKeys password") = (IF cnf.Password # <<>> THEN 1 ELSE 0)
        /\ Count("Click") = 1

\* C31 witness: a Login without password has clicked
C31_Witness ==
    /\ op = "Login" /\ cnf.Password = <<>> /\ LastOp = "Click" /\ pc = "submit_wait"
    /\ page.user /\ page.pass /\ page.submit
    /\ ~Performed("SendKeys password")

\* ConnectWithContext has returned an error of connectToRemoteChrome
RemoteConnectFailed ==
    pc = "done" /\ IsError(ret.err) /\ ret.err.msg = <<"connect to remote Chrome process">>

\* C32: when ConnectWithContext returns an error after the connection was
\* established (the version query failed, the version is unparsable or too
\* old, the activation of the domains failed), the connection's cancel
\* function has been called and no handle goes to the caller; when it
\* returns success, the page domain and every requested domain are active.
C32_ConnectCancelsOnFailure ==
    /\ (pc = "done" /\ ret.err # Nil /\ ~RemoteConnectFailed) => conn = "cancelled"
    /\ (pc = "done" /\ ret.err # Nil) => ~HandleReturned
    /\ (pc = "done" /\ ret.err = Nil) =>
          (conn = "open" /\ domains = {domainPage} \cup RequestedDomains)
    /\ RemoteConnectFailed => conn = "none"

\* C32 witness: the version was accepted, the activation of the domains
\* failed, and the connection is cancelled
C32_Witness ==
    /\ pc = "done" /\ IsError(ret.err) /\ ret.err.msg = <<"activate CDP domains">>
    /\ SupportedProduct(browserProduct) /\ conn = "cancelled"

\* C33: wrapping leaves the Kind as it is: the error Login or Logout returns
\* after Wrap(e, msg) of a taxonomy error e has the Kind of e, so a
\* Timeout-Kind error of the wait still has Kind Timeout when Login returns it.
C33_WrapKeepsKind ==
    (Done /\ IsError(ret.err) /\ IsError(ret.err.cause)) =>
        /\ ret.err.Kind = ret.err.cause.Kind
        /\ Match(ret.err, ret.err.cause)

\* the arguments of the type, in the order given
ArgsOf(t) == SelectSeq(args, LAMBDA a : a.t = t)
\* the value of the last argument of the type, or the default
LastArg(t, default) == IF ArgsOf(t) = <<>> THEN default ELSE ArgsOf(t)[Len(ArgsOf(t))].v
\* the position of the first string among the arguments, 0 when there is none
FirstString ==
    IF ArgsOf("string") = <<>> THEN 0
    ELSE CHOOSE i \in 1..Len(args) :
            args[i].t = "string" /\ \A j \in 1..(i - 1) : args[j].t # "string"
\* the values of the arguments that are parameters of the message when the
\* strings behind the first one are parameters too
ParamsBehindFirstString ==
    LET idx == {i \in 1..Len(args) :
                  args[i].t = "other" \/ (args[i].t = "string" /\ i # FirstString)}
        RECURSIVE Pick(_)
        Pick(i) == IF i > Len(args) THEN <<>>
                   ELSE (IF i \in idx THEN <<args[i].v>> ELSE <<>>) \o Pick(i + 1)
    IN  Pick(1)
\* the values of the arguments that are neither Kind, error nor string
OtherParams ==
    LET o == ArgsOf("other") IN [i \in 1..Len(o) |-> o[i].v]

\* Error() of the error, from the message and the cause
Rendered(e) ==
    IF e.cause = Nil THEN e.msg ELSE e.msg \o <<": ">> \o ErrorString(e.cause)

C38_ValidationMessageSent ==
    /\ (pc = "done" /\ status = StatusBadRequest) =>
          sent = ErrorData(ErrorString(ret.err))
    /\ (pc = "done" /\ status = StatusInternalServerError) =>
          /\ sent = ErrorData(StatusText(StatusInternalServerError))
          /\ sent.message # ErrorString(ret.err)

\* the continuation of an intercepted request has failed
ContinuationFailed == \E id \in 1..intercepted : id \notin pending \cup continued

\* C37: when the session is torn down or the context of the call is
\* cancelled while the continuation of an intercepted request is pending, the
\* failed continuation does not crash the process: the call goes on to return
\* a result or an error.
C37_FailedContinuationNoCrash ==
    ((ctxDone \/ conn = "cancelled") /\ ContinuationFailed) => ~crashed

\* the main flow is between the nil return of a page-load wait and its read
\* of the history
ReadsHistoryNext == pc \in {"check", "classify"}

----------------------------------------------------------------------------
(* Two invocations of Login or Logout at a time, as two HTTP requests make  *)
(* them: each call connects on its own, which opens a tab of its own, and  *)
(* registers its history listener and its waiter on the context it got.    *)

\* the invocations in progress at a time
Calls == {1, 2}

\* the navigation requests a tab may issue
TabRequests ==
    { Request(<<"http://op", "/login", "?", "login_challenge", "=", "c">>, <<>>, TRUE),
      Request(<<"http://rp", "/cb">>, <<"#", "access_token", "=", "A">>, TRUE) }

\* a call before its first step: no tab, no listener, an empty history
NewCall ==
    [pc |-> "connect", scopeDone |-> FALSE, conn |-> "none", tab |-> 0,
     listening |-> FALSE, entries |-> <<>>, waiters |-> <<>>,
     requests |-> <<>>, loaded |-> 0, last |-> <<>>, err |-> Nil]

\* the tabs opened so far are numbered in the order of their opening
NextTab ==
    1 + Cardinality({c \in Calls : calls[c].tab # 0})

\* a history listener that hears the events of every tab
ListenersOfAnyTab(t) ==
    {c \in Calls : calls[c].listening /\ calls[c].conn = "open"}

\* chromedp.ListenTarget(ctx, ...) in NewNavHistory: the calls whose history
\* listener hears the events of the tab
ListenersOf(t) ==
    {c \in Calls : calls[c].listening /\ calls[c].conn = "open" /\ calls[c].tab = t}

\* a waiter that hears the events of every tab
WaitersOfAnyTab(t) ==
    {c \in Calls : calls[c].waiters # <<>> /\ calls[c].conn = "open"}

\* chromedp.ListenTarget(ctx, ...) in PageLoadWaiterFunc: the calls whose
\* waiter hears the events of the tab
WaitersOf(t) ==
    {c \in Calls : calls[c].waiters # <<>> /\ calls[c].conn = "open" /\ calls[c].tab = t}

\* a cancel function that ends every open session
CancelledByAny(c) ==
    {d \in Calls : calls[d].conn = "open"}

\* the cancel function ConnectWithContext returned to the call: the
\* sessions it ends
CancelledBy(c) ==
    {d \in Calls : d = c /\ calls[d].conn = "open"}

\* the call returns: its deferred cancel function runs first
CallReturn(c, e) ==
    calls' = [d \in Calls |->
                IF d = c
                THEN [calls[d] EXCEPT !.pc = "done", !.err = e,
                                      !.conn = IF d \in CancelledBy(c) THEN "cancelled" ELSE @]
                ELSE IF d \in CancelledBy(c)
                     THEN [calls[d] EXCEPT !.conn = "cancelled"]
                     ELSE calls[d]]

\* step 2: ConnectWithContext opens a tab for the call
CallConnect(c) ==
    /\ calls[c].pc = "connect"
    /\ IF calls[c].scopeDone
       THEN CallReturn(c, Wrap(ContextCanceled, <<"connect to chrome">>, <<>>))
       ELSE calls' = [calls EXCEPT ![c].conn = "open", ![c].tab = NextTab,
                                   ![c].pc = "history"]

\* step 2: NewNavHistory registers the listener of the call's own history
CallNewNavHistory(c) ==
    /\ calls[c].pc = "history"
    /\ IF calls[c].scopeDone
       THEN CallReturn(c, Wrap(Wrap(ContextCanceled, <<"initialize navigation history">>, <<>>),
                               <<"initialize navigation history">>, <<>>))
       ELSE calls' = [calls EXCEPT ![c].listening = TRUE, ![c].pc = "navigate"]

\* step 3: the waiter is registered and the tab is sent to the login page
CallNavigate(c) ==
    /\ calls[c].pc = "navigate"
    /\ calls' = [calls EXCEPT ![c].waiters = <<PageLoadWaiterFunc(FALSE, 0)>>,
                              ![c].pc = "wait"]

\* the browser hands an intercepted navigation request of a tab to the
\* listeners of the tab
TabRequestIntercepted(t) ==
    \E o \in Calls, v \in TabRequests :
       /\ calls[o].tab = t /\ calls[o].conn = "open" /\ calls[o].pc = "wait"
       /\ calls[o].loaded = 0
       /\ Len(calls[o].requests) < MaxIntercepts
       /\ calls' = [c \in Calls |->
                      LET heard == IF c \in ListenersOf(t)
                                   THEN [calls[c] EXCEPT !.entries = Append(@, HistoryEntry(v))]
                                   ELSE calls[c]
                      IN  IF c = o THEN [heard EXCEPT !.requests = Append(@, v)] ELSE heard]

\* the browser hands the load event of a tab to the listeners of the tab
TabLoadEventFired(t) ==
    \E o \in Calls :
       /\ calls[o].tab = t /\ calls[o].conn = "open" /\ calls[o].pc = "wait"
       /\ calls[o].loaded = 0 /\ calls[o].requests # <<>>
       /\ calls' = [c \in Calls |->
                      LET heard == IF c \in WaitersOf(t)
                                   THEN [calls[c] EXCEPT !.waiters =
                                           [i \in DOMAIN @ |-> OnEvent(@[i], "Page.loadEventFired")]]
                                   ELSE calls[c]
                      IN  IF c = o THEN [heard EXCEPT !.loaded = 1] ELSE heard]

\* the wait function of the call returns: nil on the signal of its waiter,
\* the context's error when the scope of the call is cancelled
CallWait(c) ==
    /\ calls[c].pc = "wait"
    /\ \/ /\ calls[c].waiters[1].ch > 0
          /\ calls' = [calls EXCEPT ![c].pc = "read"]
       \/ /\ calls[c].scopeDone \/ calls[c].conn # "open"
          /\ CallReturn(c, Wrap(ContextCanceled, <<"navigate to the login page">>, <<>>))

\* the call reads the last entry of its history and returns
CallRead(c) ==
    /\ calls[c].pc = "read"
    /\ calls' = [d \in Calls |->
                   IF d = c
                   THEN [calls[d] EXCEPT !.pc = "done", !.last = Last(calls[c].entries),
                                         !.conn = IF d \in CancelledBy(c) THEN "cancelled" ELSE @]
                   ELSE IF d \in CancelledBy(c)
                        THEN [calls[d] EXCEPT !.conn = "cancelled"]
                        ELSE calls[d]]

\* the HTTP request of the call is cancelled
CallCancel(c) ==
    /\ calls[c].pc # "done" /\ ~calls[c].scopeDone
    /\ calls' = [calls EXCEPT ![c].scopeDone = TRUE]

concurIdleVars ==
    <<op, cnf, pc, ctxDone, conn, domains, deferred, teardowns, entries, requests, listening,
      intercepted, pending, continued, loading, target, page, waiters, timer, waitErr,
      woken, landingURL, postLoginURL, ops, ret, crashed, status, request, sent,
      chromeVars, got, want, args>>

ConcurInit ==
    /\ op = "Login" /\ cnf = Nil
    /\ pc = "done" /\ ctxDone = FALSE /\ conn = "none" /\ domains = {}
    /\ deferred = FALSE /\ teardowns = 0 /\ entries = <<>> /\ requests = <<>> /\ listening = FALSE
    /\ intercepted = 0 /\ pending = {} /\ continued = {} /\ loading = FALSE
    /\ target = <<>> /\ page = BlankPage /\ waiters = <<>> /\ timer = "off"
    /\ waitErr = Nil /\ woken = "" /\ landingURL = <<>> /\ postLoginURL = <<>>
    /\ ops = <<>> /\ ret = Nil /\ crashed = FALSE /\ status = 0
    /\ request = Nil /\ sent = Nil
    /\ remoteURL = <<>> /\ chromeConfig = Nil /\ browserProduct = <<>> /\ debuggerURL = <<>>
    /\ got = Nil /\ want = Nil /\ args = <<>>
    /\ calls = [c \in Calls |-> NewCall]

ConcurNext ==
    /\ \E c \in Calls :
          \/ CallConnect(c)
          \/ CallNewNavHistory(c)
          \/ CallNavigate(c)
          \/ TabRequestIntercepted(c)
          \/ TabLoadEventFired(c)
          \/ CallWait(c)
          \/ CallRead(c)
          \/ CallCancel(c)
    /\ UNCHANGED concurIdleVars

ConcurSpec == ConcurInit /\ [][ConcurNext]_vars

\* the history entries of the navigation requests a tab has issued
EntriesOf(reqs) ==
    LET nav == SelectSeq(reqs, LAMBDA v : v.IsNavigationRequest)
    IN  [k \in 1..Len(nav) |-> HistoryEntry(nav[k])]

\* C35: of two invocations in progress at a time, each has its own session,
\* history and waiter: the history of a call holds the navigations of its
\* own tab and no other, its waiter is signalled by the load event of its
\* own tab only, and its session is cancelled by its own return only.
C35_CallsAreIsolated ==
    \A c \in Calls :
       /\ calls[c].entries = EntriesOf(calls[c].requests)
       /\ (calls[c].waiters # <<>> /\ calls[c].waiters[1].ch > 0) => calls[c].loaded = 1
       /\ calls[c].pc = "read" => calls[c].loaded = 1
       /\ calls[c].conn = "cancelled" => calls[c].pc = "done"
       /\ \A d \in Calls \ {c} : calls[c].tab # 0 => calls[d].tab # calls[c].tab

\* C35 witness: the first call has read the last navigation of its tab and
\* has returned, its session cancelled; the second call, with another
\* navigation in its history, is still waiting on its open session
C35_Witness ==
    /\ calls[1].pc = "done" /\ calls[1].err = Nil /\ calls[1].conn = "cancelled"
    /\ Len(calls[1].entries) = 1 /\ calls[1].last = calls[1].entries[1]
    /\ calls[2].pc = "wait" /\ calls[2].conn = "open" /\ calls[2].loaded = 0
    /\ Len(calls[2].entries) = 1 /\ calls[2].entries # calls[1].entries

----------------------------------------------------------------------------
(* The call under a fair scheduler: a step of the call that can be taken   *)
(* is taken, the goroutine of a continuation runs, and the time of a       *)
(* running timer passes.  Nothing is assumed of the browser's events and   *)
(* of the caller's cancellation.                                           *)

\* the positions of a call
Positions ==
    {"validate", "connect", "history", "navigate", "navigate_wait", "navigate_select",
     "check", "read_page", "has_username", "has_password", "has_submit", "fill_username",
     "fill_password", "submit", "submit_wait", "submit_select", "classify",
     "classify_error", "error_message", "error_page", "done"}

\* the call's own goroutine goes on: the call is running and its select is
\* not parked, and it moves to its next position or parks its select.
\* (Every step of Login, Logout, Navigate and the wait function is such a
\* step, and no step of the browser, the timer or the caller is.)
CallStep ==
    /\ Running /\ woken # "parked"
    /\ \/ pc' \in Positions \ {pc} /\ woken' \in {"", woken}
       \/ pc' = pc /\ woken' = "parked"

\* what a step of the call's own goroutine changes
stepVars == <<pc, woken>>

\* the calls of this part: Logins with the endpoint, the user and every
\* selector set, with and without client ID and password, and a Logout
LiveConfigs ==
    {c \in LoginConfigs :
        /\ c.Endpoint = <<"http://op">> /\ c.RedirectURI # Unset /\ c.Scopes # Unset
        /\ c.Username # Unset /\ c.UsernameField # Unset /\ c.PasswordField # Unset
        /\ c.SubmitButton # Unset /\ c.ErrorMessage # Unset}
      \cup {c \in LogoutConfigs : c.Endpoint = <<"http://op">> /\ c.IDToken # Unset}

LiveInit == Init /\ cnf \in LiveConfigs

LiveSpec ==
    /\ LiveInit /\ [][Next]_vars
    /\ WF_stepVars(CallStep)
    /\ WF_vars(ContinueInterceptedRequest)
    /\ WF_vars(TimerFires)

\* how many steps of the call do the operation: Login waits for a page load,
\* looks for the provider's error and reads the page's markup in two steps each
StepsDoing(o) ==
    IF op = "Login" /\ o \in {"wait", "extractOIDCError", "OuterHTML"} THEN 2 ELSE 1

\* the call is in a page-load wait
InWait == pc \in {"navigate_wait", "navigate_select", "submit_wait", "submit_select"}

\* the page-load event of the wait in progress has been delivered to its waiter
Delivered == waiters # <<>> /\ LastWaiter.stoped

\* the call stands in a page-load wait that has got neither its page-load
\* event nor the cancellation of the scope
Blocked == InWait /\ ~Delivered /\ ~ctxDone

\* C39: a call returns in the end if every page-load wait it enters gets its
\* page-load event or the cancellation of the scope: from wherever it is not
\* held in a wait without either, it goes on to its return or to such a
\* wait.  The navigation wait of step 3 runs without a timer and ends by the
\* event or the cancellation only, the post-submit wait runs with its timer;
\* no step is done again within a call.
C39_CallReturns ==
    /\ [](/\ pc \in {"navigate_wait", "navigate_select"} => timer = "off"
          /\ (Len(waiters) = 1 /\ waitErr # Nil) => ctxDone
          /\ pc = "submit_select" => timer # "off"
          /\ \A i \in 1..Len(ops) : Count(ops[i]) <= StepsDoing(ops[i]))
    /\ (~Blocked ~> (Done \/ Blocked))

====
